---- MODULE Spec2Model ----
(***************************************************************************)
(* Model of the mthds package manager core: semver selection, the package  *)
(* cache, the transitive dependency resolver, and the lock file engine.    *)
(*                                                                         *)
(* A version is a triple <<major, minor, patch>>.  A constraint string is  *)
(* a record [op, v] (op is the operator prefix of the constraint).  A      *)
(* directory is a record of the files it holds; the remote registry maps   *)
(* every package address to its tag list and to the tree each tag holds.   *)
(***************************************************************************)
EXTENDS Integers, Sequences, FiniteSets, TLC

VARIABLES registry, manifest, cache, pc, resolved, error, vcs_log, lock_file,
          verify_result, edits,
          install,     \* do_install: loop position, counters, exit code
          store,       \* store_in_cache step by step: the two directories, the writers
          calc,        \* a call of a pure function: its arguments and its result
          methods_toml,      \* METHODS.toml in the working directory
          methods_lock,      \* methods.lock in the working directory
          exit_code,         \* exit status of the last command
          environ,           \* os.environ, the four credential names
          credentials_file,  \* ~/.mthds/credentials: existence, lines, mode
          legacy_files,      \* ~/.mthds/config.json and ~/.mthds/.env.local
          migration_done,    \* the module global _migration_done
          walk               \* _resolve_transitive_tree step by step: its call stack

\* the working directory files and the credentials store
cliVars == <<methods_toml, methods_lock, exit_code, environ, credentials_file,
             legacy_files, migration_done, walk>>

\* what the lock and integrity runs leave alone
commandVars == <<install, store, calc, cliVars>>

\* what do_install leaves alone
stepVars == <<store, calc, cliVars>>

vars == <<registry, manifest, cache, pc, resolved, error, vcs_log, lock_file,
          verify_result, edits, install, store, calc, cliVars>>

----------------------------------------------------------------------------
(* Sentinels for Python's None *)

NoVersion == <<>>
NoPath == "<none>"

----------------------------------------------------------------------------
(* mthds/package/semver.py *)

V(a, b, c) == <<a, b, c>>

VersionLess(a, b) ==
    \/ a[1] < b[1]
    \/ a[1] = b[1] /\ a[2] < b[2]
    \/ a[1] = b[1] /\ a[2] = b[2] /\ a[3] < b[3]

VersionLeq(a, b) == a = b \/ VersionLess(a, b)

\* SimpleSpec caret range: up to the next change of the leftmost non-zero part
CaretUpper(v) ==
    IF v[1] # 0 THEN V(v[1] + 1, 0, 0)
    ELSE IF v[2] # 0 THEN V(0, v[2] + 1, 0)
    ELSE V(0, 0, v[3] + 1)

Caret(v) == [op |-> "^", v |-> v]
Exact(v) == [op |-> "==", v |-> v]
AtLeast(v) == [op |-> ">=", v |-> v]

version_satisfies(version, constraint) ==
    CASE constraint.op = "^" ->
            VersionLeq(constraint.v, version) /\ VersionLess(version, CaretUpper(constraint.v))
      [] constraint.op = ">=" -> VersionLeq(constraint.v, version)
      [] OTHER -> version = constraint.v

RECURSIVE InsertSorted(_, _)
InsertSorted(v, s) ==
    IF s = <<>> THEN <<v>>
    ELSE IF VersionLess(v, Head(s)) THEN <<v>> \o s
    ELSE <<Head(s)>> \o InsertSorted(v, Tail(s))

\* the list taken in the order it was given
GivenOrder(s) == s

RECURSIVE sorted(_)
sorted(s) == IF s = <<>> THEN <<>> ELSE InsertSorted(Head(s), sorted(Tail(s)))

RECURSIVE FirstMatch(_, _)
FirstMatch(s, constraints) ==
    IF s = <<>> THEN NoVersion
    ELSE IF \A i \in 1..Len(constraints) : version_satisfies(Head(s), constraints[i])
         THEN Head(s)
         ELSE FirstMatch(Tail(s), constraints)

select_minimum_version(available_versions, constraint) ==
    FirstMatch(sorted(available_versions), <<constraint>>)

select_minimum_version_for_multiple_constraints(available_versions, constraints) ==
    FirstMatch(sorted(available_versions), constraints)

----------------------------------------------------------------------------
(* Manifests, dependencies and directories *)

Dep(alias, address, version, path) ==
    [alias |-> alias, address |-> address, version |-> version, path |-> path]

\* A parsed METHODS.toml; present = FALSE stands for "no (parseable) manifest"
Manifest(address, version, dependencies) ==
    [present |-> TRUE, address |-> address, version |-> version, dependencies |-> dependencies]

NoManifest == [present |-> FALSE, address |-> "", version |-> NoVersion, dependencies |-> <<>>]

\* A directory: METHODS.toml, one bundle file (0 = none) and a .git/ subtree
Dir(m, bundle, git) == [exists |-> TRUE, manifest |-> m, bundle |-> bundle, git |-> git]

NoDir == [exists |-> FALSE, manifest |-> NoManifest, bundle |-> 0, git |-> FALSE]

IsNonEmpty(d) == d.manifest.present \/ d.bundle # 0 \/ d.git

find_manifest_in_dir(d) == IF d.exists THEN d.manifest ELSE NoManifest

----------------------------------------------------------------------------
(* mthds/packages/package_cache.py *)

get_cached_package_path(address, version) ==
    [kind |-> "cache", address |-> address, version |-> version]

LocalRoot(path) == [kind |-> "local", address |-> path, version |-> NoVersion]

CachedDir(c, address, version) == c[address][version]

is_cached(c, address, version) ==
    LET pkg_path == CachedDir(c, address, version)
    IN  pkg_path.exists /\ IsNonEmpty(pkg_path)

\* copy to staging, drop .git/, rename over the final path
store_in_cache(c, source_dir, address, version) ==
    [c EXCEPT ![address][version] = [source_dir EXCEPT !.git = FALSE]]

remove_cached_package(c, address, version) ==
    [c EXCEPT ![address][version] = NoDir]

----------------------------------------------------------------------------
(* mthds/packages/vcs_resolver.py *)

VcsCall(op, address, alias) == [op |-> op, address |-> address, alias |-> alias]

\* git ls-remote --tags: fails (VCSFetchError) for a repository that does not exist
ListFails(reg, address) == ~reg[address].published

list_remote_version_tags(reg, address) == reg[address].tags

\* git clone --depth 1 --branch <tag>: the tree of the tag plus a .git/ directory
clone_at_version(reg, address, version_tag) ==
    [reg[address].tree[version_tag] EXCEPT !.git = TRUE]

\* NoVersion stands for VersionResolutionError
resolve_version_from_tags(version_tags, version_constraint) ==
    IF version_tags = <<>> THEN NoVersion
    ELSE select_minimum_version(version_tags, version_constraint)

----------------------------------------------------------------------------
(* mthds/packages/dependency_resolver.py *)

ResolvedDependency(alias, address, m, package_root) ==
    [alias |-> alias, address |-> address, manifest |-> m, package_root |-> package_root]

\* Error kinds (the exception raised); NoError = normal return
NoError == "none"
CycleError == "TransitiveDependencyError: cycle"
UnsatisfiableError == "TransitiveDependencyError: no version satisfies all constraints"
ResolveError == "DependencyResolveError"
KeyErrorCrash == "KeyError"

\* resolved_map is an insertion-ordered dict keyed by address
MapHas(m, a) == \E i \in 1..Len(m) : m[i].address = a

MapGet(m, a) == m[CHOOSE i \in 1..Len(m) : m[i].address = a]

MapSet(m, a, e) ==
    IF MapHas(m, a)
    THEN [i \in 1..Len(m) |-> IF m[i].address = a THEN e ELSE m[i]]
    ELSE Append(m, e)

MapPop(m, a) == SelectSeq(m, LAMBDA e : e.address # a)

RECURSIVE RemoveFirst(_, _)
RemoveFirst(s, x) ==
    IF s = <<>> THEN <<>>
    ELSE IF Head(s) = x THEN Tail(s)
    ELSE <<Head(s)>> \o RemoveFirst(Tail(s), x)

InSeq(s, x) == \E i \in 1..Len(s) : s[i] = x

RemoteOnly(deps) == SelectSeq(deps, LAMBDA d : d.path = NoPath)

build_resolved_from_dir(c, alias, address, version) ==
    ResolvedDependency(alias, address,
                       find_manifest_in_dir(CachedDir(c, address, version)),
                       get_cached_package_path(address, version))

\* Clone the selected tag and store it, unless the cache already holds it
FetchIntoCache(reg, st, alias, address, selected) ==
    IF is_cached(st.cache, address, selected)
    THEN [st EXCEPT !.ret = build_resolved_from_dir(st.cache, alias, address, selected)]
    ELSE LET clone_dest == clone_at_version(reg, address, selected)
             stored == store_in_cache(st.cache, clone_dest, address, selected)
         IN  [st EXCEPT !.cache = stored,
                        !.vcs_log = Append(@, VcsCall("clone", address, alias)),
                        !.ret = build_resolved_from_dir(stored, alias, address, selected)]

resolve_remote_dependency(reg, st, dep) ==
    LET logged == [st EXCEPT !.vcs_log = Append(@, VcsCall("ls-remote", dep.address, dep.alias))]
    IN  IF ListFails(reg, dep.address) THEN [logged EXCEPT !.error = ResolveError]
        ELSE LET version_tags == list_remote_version_tags(reg, dep.address)
                 selected_version == resolve_version_from_tags(version_tags, dep.version)
             IN  IF selected_version = NoVersion THEN [logged EXCEPT !.error = ResolveError]
                 ELSE FetchIntoCache(reg, logged, dep.alias, dep.address, selected_version)

resolve_with_multiple_constraints(reg, st, address, alias, constraints) ==
    LET listed == IF address \in st.tags_cache THEN st
                  ELSE [st EXCEPT !.vcs_log = Append(@, VcsCall("ls-remote", address, alias))]
    IN  IF address \notin st.tags_cache /\ ListFails(reg, address)
        THEN [listed EXCEPT !.error = ResolveError]
        ELSE LET cached_tags == [listed EXCEPT !.tags_cache = @ \cup {address}]
                 versions == list_remote_version_tags(reg, address)
                 selected == select_minimum_version_for_multiple_constraints(versions, constraints)
             IN  IF selected = NoVersion THEN [cached_tags EXCEPT !.error = UnsatisfiableError]
                 ELSE FetchIntoCache(reg, cached_tags, alias, address, selected)

RECURSIVE remove_stale_subdep_constraints(_, _)
RECURSIVE RemoveStaleLoop(_, _, _)

\* st carries resolved_map and constraints_by_address
RemoveStaleLoop(subs, i, st) ==
    IF i > Len(subs) THEN st
    ELSE LET old_sub == subs[i]
             constraints_list == st.constraints_by_address[old_sub.address]
         IN  IF old_sub.path # NoPath \/ constraints_list = <<>>
                \/ ~InSeq(constraints_list, old_sub.version)
             THEN RemoveStaleLoop(subs, i + 1, st)
             ELSE LET remaining == RemoveFirst(constraints_list, old_sub.version)
                      pruned == [st EXCEPT !.constraints_by_address[old_sub.address] = remaining]
                  IN  IF remaining # <<>> THEN RemoveStaleLoop(subs, i + 1, pruned)
                      ELSE IF ~MapHas(pruned.resolved_map, old_sub.address)
                           THEN RemoveStaleLoop(subs, i + 1, pruned)
                           ELSE LET old_resolved_sub == MapGet(pruned.resolved_map, old_sub.address)
                                    popped == [pruned EXCEPT !.resolved_map = MapPop(@, old_sub.address)]
                                IN  RemoveStaleLoop(subs, i + 1,
                                        remove_stale_subdep_constraints(old_resolved_sub.manifest, popped))

remove_stale_subdep_constraints(old_manifest, st) ==
    IF ~old_manifest.present \/ old_manifest.dependencies = <<>> THEN st
    ELSE RemoveStaleLoop(old_manifest.dependencies, 1, st)

RECURSIVE resolve_transitive_tree(_, _, _)
RECURSIVE ResolveOneDep(_, _, _)

\* the finally clause forgotten: the address stays on the stack
DiscardNothing(st, address) == st

\* finally: resolution_stack.discard(dep.address)
DiscardFromStack(st, address) == [st EXCEPT !.resolution_stack = @ \ {address}]

\* Recurse into the remote sub-dependencies of st.ret with its address on the stack
RecurseIntoSubDeps(reg, st, address, resolved_dep) ==
    LET remote_sub_deps == IF resolved_dep.manifest.present
                           THEN RemoteOnly(resolved_dep.manifest.dependencies)
                           ELSE <<>>
    IN  IF remote_sub_deps = <<>> THEN st
        ELSE resolve_transitive_tree(reg, remote_sub_deps,
                                     [st EXCEPT !.resolution_stack = @ \cup {address}])

\* One iteration of the loop over deps
ResolveOneDep(reg, dep, st) ==
    IF dep.path # NoPath THEN st
    ELSE IF dep.address \in st.resolution_stack THEN [st EXCEPT !.error = CycleError]
    ELSE
      LET tracked == [st EXCEPT !.constraints_by_address[dep.address] = Append(@, dep.version)]
      IN  IF MapHas(tracked.resolved_map, dep.address)
          THEN
            LET existing == MapGet(tracked.resolved_map, dep.address)
            IN  IF existing.manifest.present
                   /\ version_satisfies(existing.manifest.version, dep.version)
                THEN tracked
                ELSE
                  LET pruned == remove_stale_subdep_constraints(existing.manifest, tracked)
                  IN  IF pruned.constraints_by_address[dep.address] = <<>>
                      THEN [pruned EXCEPT !.error = KeyErrorCrash]
                      ELSE
                        LET re == resolve_with_multiple_constraints(reg, pruned, dep.address, dep.alias,
                                      pruned.constraints_by_address[dep.address])
                        IN  IF re.error # NoError THEN re
                            ELSE
                              LET placed == [re EXCEPT !.resolved_map = MapSet(@, dep.address, re.ret)]
                                  after == RecurseIntoSubDeps(reg, placed, dep.address, re.ret)
                              IN  DiscardFromStack(after, dep.address)
          ELSE
            LET pushed == [tracked EXCEPT !.resolution_stack = @ \cup {dep.address}]
                got == IF Len(pushed.constraints_by_address[dep.address]) > 1
                       THEN resolve_with_multiple_constraints(reg, pushed, dep.address, dep.alias,
                                pushed.constraints_by_address[dep.address])
                       ELSE resolve_remote_dependency(reg, pushed, dep)
            IN  IF got.error # NoError
                THEN DiscardFromStack(got, dep.address)
                ELSE
                  LET placed == [got EXCEPT !.resolved_map = MapSet(@, dep.address, got.ret)]
                      after == RecurseIntoSubDeps(reg, placed, dep.address, got.ret)
                  IN  DiscardFromStack(after, dep.address)

\* for dep in deps: ... ; an exception ends the loop
resolve_transitive_tree(reg, deps, st) ==
    IF deps = <<>> \/ st.error # NoError THEN st
    ELSE resolve_transitive_tree(reg, Tail(deps), ResolveOneDep(reg, Head(deps), st))

\* The package root's neighbourhood on disk: ../l is a package whose own manifest
\* declares a remote dependency; any other path does not exist
LocalDir(path) ==
    IF path = "../l"
    THEN Dir(Manifest("L", V(0, 1, 0), <<Dep("e", "E", Caret(V(1, 0, 0)), NoPath)>>), 1, FALSE)
    ELSE NoDir

resolve_local_dependency(dep) ==
    ResolvedDependency(dep.alias, dep.address, find_manifest_in_dir(LocalDir(dep.path)),
                       LocalRoot(dep.path))

RECURSIVE ResolveLocals(_, _)
\* step 1 of resolve_all_dependencies; a missing path raises DependencyResolveError
ResolveLocals(deps, acc) ==
    IF deps = <<>> \/ acc.error # NoError THEN acc
    ELSE LET dep == Head(deps)
         IN  IF dep.path = NoPath THEN ResolveLocals(Tail(deps), acc)
             ELSE IF ~LocalDir(dep.path).exists
                  THEN [acc EXCEPT !.error = ResolveError]
                  ELSE ResolveLocals(Tail(deps),
                          [acc EXCEPT !.local_resolved = Append(@, resolve_local_dependency(dep))])

NoResolved == ResolvedDependency("", "", NoManifest, LocalRoot(NoPath))

Addrs == {"A", "B", "C", "D", "E"}

FreshResolverState(c) ==
    [resolved_map |-> <<>>,
     constraints_by_address |-> [a \in Addrs |-> <<>>],
     tags_cache |-> {},
     resolution_stack |-> {},
     cache |-> c,
     vcs_log |-> <<>>,
     error |-> NoError,
     ret |-> NoResolved]

\* the walk also fed with what the local packages' own manifests declare
RemoteDepsWithLocalSubDeps(m, local_resolved) ==
    LET RECURSIVE SubDeps(_)
        SubDeps(ls) == IF ls = <<>> THEN <<>>
                       ELSE RemoteOnly(Head(ls).manifest.dependencies) \o SubDeps(Tail(ls))
    IN  RemoteOnly(m.dependencies) \o SubDeps(local_resolved)

\* the dependencies handed to the transitive walk: the root's own, without a path
RemoteDepsOfRoot(m, local_resolved) == RemoteOnly(m.dependencies)

resolve_all_dependencies(reg, m, c) ==
    LET locals == ResolveLocals(m.dependencies, [error |-> NoError, local_resolved |-> <<>>])
        remote_deps == RemoteDepsOfRoot(m, locals.local_resolved)
        fresh == FreshResolverState(c)
    IN  IF locals.error # NoError
        THEN [error |-> locals.error, result |-> <<>>, cache |-> c, vcs_log |-> <<>>]
        ELSE LET walked == IF remote_deps = <<>> THEN fresh
                           ELSE resolve_transitive_tree(reg, remote_deps, fresh)
             IN  [error |-> walked.error,
                  result |-> IF walked.error = NoError
                             THEN locals.local_resolved \o walked.resolved_map
                             ELSE <<>>,
                  cache |-> walked.cache,
                  vcs_log |-> walked.vcs_log]

----------------------------------------------------------------------------
(* mthds/package/lock_file.py *)

LockFileError == "LockFileError"
IntegrityError == "IntegrityError"

DirAt(c, package_root) ==
    IF package_root.kind = "cache"
    THEN CachedDir(c, package_root.address, package_root.version)
    ELSE LocalDir(package_root.address)

\* SHA-256 over (relative path, bytes) of every regular file outside .git/, in
\* path order: "METHODS.toml" sorts before "main.mthds"
compute_directory_hash(directory) ==
    <<"sha256", <<"METHODS.toml", directory.manifest>>, <<"main.mthds", directory.bundle>>>>

LockedPackage(address, version, hash, source) ==
    [address |-> address, version |-> version, hash |-> hash, source |-> source]

RECURSIVE GenerateLoop(_, _, _, _)
GenerateLoop(resolved_deps, local_addresses, c, acc) ==
    IF resolved_deps = <<>> \/ acc.error # NoError THEN acc
    ELSE LET r == Head(resolved_deps)
         IN  IF r.address \in local_addresses
             THEN GenerateLoop(Tail(resolved_deps), local_addresses, c, acc)
             ELSE IF ~r.manifest.present \/ ~DirAt(c, r.package_root).exists
                  THEN [acc EXCEPT !.error = LockFileError]
                  ELSE GenerateLoop(Tail(resolved_deps), local_addresses, c,
                         [acc EXCEPT !.packages =
                            MapSet(@, r.address,
                                   LockedPackage(r.address, r.manifest.version,
                                                 compute_directory_hash(DirAt(c, r.package_root)),
                                                 <<"https://", r.address>>))])

generate_lock_file(m, resolved_deps, c) ==
    LET local_addresses ==
            {m.dependencies[i].address : i \in {j \in 1..Len(m.dependencies) :
                                                  m.dependencies[j].path # NoPath}}
    IN  GenerateLoop(resolved_deps, local_addresses, c, [error |-> NoError, packages |-> <<>>])

\* the directory's presence checked, its hash not compared
VerifyPresenceOnly(locked, c) == CachedDir(c, locked.address, locked.version).exists

\* TRUE = returns normally, FALSE = raises IntegrityError
verify_locked_package(locked, c) ==
    LET cached_path == CachedDir(c, locked.address, locked.version)
    IN  /\ cached_path.exists
        /\ compute_directory_hash(cached_path) = locked.hash

RECURSIVE verify_lock_file(_, _)
\* for address, locked in lock_file.packages.items(): the first failure propagates
verify_lock_file(packages, c) ==
    IF packages = <<>> THEN NoError
    ELSE IF ~verify_locked_package(Head(packages), c) THEN IntegrityError
    ELSE verify_lock_file(Tail(packages), c)

----------------------------------------------------------------------------
(* The remote repositories and the root manifests the model ranges over *)

MaxRootDeps == 2

V100 == V(1, 0, 0)
V120 == V(1, 2, 0)
V150 == V(1, 5, 0)
V200 == V(2, 0, 0)

\* versions a tag of the universe can carry
AllVersions == {V100, V120, V150}

\* versions a cache path can be asked for: those, and what a manifest may state
CacheVersions == AllVersions \cup {V200}

Remote(alias, address, version) == Dep(alias, address, Caret(version), NoPath)

\* Tag lists as git ls-remote may print them (any order)
TagListsB == {<<V100>>, <<V150, V100>>, <<V150, V100, V120>>}
TagListsD == {<<V100>>, <<V120, V100>>}

\* What the METHODS.toml of repository B states as its version: the version of
\* the tag it is committed under, one fixed version in every tagged tree (the
\* file is not kept in step with the tags), or there is no manifest at all
ManifestKinds == {"tag", "v150", "v200", "none"}

DeclaredVersion(kind, tag) ==
    CASE kind = "v150" -> V150
      [] kind = "v200" -> V200
      [] OTHER -> tag

\* What the manifests of the repositories declare. A transitive dependency with
\* a path is skipped by the walk.
DepsBLow == {<<>>, <<Dep("l", "L", Exact(V(0, 1, 0)), "../l"), Remote("d", "D", V100)>>}
DepsBHigh == {<<>>, <<Remote("c", "C", V100)>>}
DepsC == {<<>>, <<Remote("b", "B", V100)>>, <<Remote("b", "B", V120)>>,
          <<Remote("b", "B", V200)>>, <<Remote("a", "A", V100)>>}
DepsDLow == {<<>>, <<Remote("b", "B", V120)>>,
             <<Remote("c", "C", V100), Remote("b", "B", V120)>>}

RootDepPool ==
    {Remote("b", "B", V100), Remote("c", "C", V100), Remote("d", "D", V100),
     Remote("d2", "D", V120),
     Dep("l", "L", Exact(V(0, 1, 0)), "../l"),
     Dep("bl", "B", Caret(V100), "../l"),
     Dep("m", "L", Exact(V(0, 1, 0)), "../missing")}

\* Dependency lists of a root manifest: aliases are unique within one manifest
RootDepLists ==
    {s \in UNION {[1..n -> RootDepPool] : n \in 0..MaxRootDeps} :
        \A i, j \in 1..Len(s) : i # j => s[i].alias # s[j].alias}

Lowest(tags) == Head(sorted(tags))

Tree(address, tag, kind, deps) ==
    IF kind = "none" THEN Dir(NoManifest, 1, FALSE)
    ELSE Dir(Manifest(address, DeclaredVersion(kind, tag), deps), 1, FALSE)

Repo(address, tags, kind, depsLow, depsHigh) ==
    [published |-> TRUE,
     tags |-> tags,
     tree |-> [v \in AllVersions |->
                 IF v \in {tags[i] : i \in 1..Len(tags)}
                 THEN Tree(address, v, kind, IF v = Lowest(tags) THEN depsLow ELSE depsHigh)
                 ELSE NoDir]]

Unpublished == [published |-> FALSE, tags |-> <<>>, tree |-> [v \in AllVersions |-> NoDir]]

Registry(tagsB, kindB, bLow, bHigh, depsC, tagsD, dLow) ==
    [a \in Addrs |->
        CASE a = "A" -> Repo("A", <<V100>>, "tag", <<>>, <<>>)
          [] a = "B" -> Repo("B", tagsB, kindB, bLow, bHigh)
          [] a = "C" -> Repo("C", <<V100>>, "tag", depsC, depsC)
          [] a = "D" -> Repo("D", tagsD, "tag", dLow, <<>>)
          [] OTHER -> Unpublished]

EmptyCache == [a \in Addrs |-> [v \in CacheVersions |-> NoDir]]

----------------------------------------------------------------------------
(* State machine: lock = resolve + generate, then verify *)

\* no install command is running
\* no store_in_cache call in progress
NotStoring == [started |-> FALSE]

\* no pure function called
NoCall == [fn |-> "none"]

NotInstalling ==
    [lock_present |-> FALSE, i |-> 0, fetched_count |-> 0, cached_count |-> 0,
     exit |-> "none", cache_before |-> EmptyCache]

\* a path where there is no file
NoFile == [exists |-> FALSE]

\* no walk of the dependency tree in progress
NotWalking == [status |-> "idle"]

\* no command has run, nothing is set in the environment, ~/.mthds is empty
InitCli ==
    /\ methods_toml = NoFile
    /\ methods_lock = NoFile
    /\ exit_code = "none"
    /\ environ = <<>>
    /\ credentials_file = NoFile
    /\ legacy_files = NoFile
    /\ migration_done = FALSE
    /\ walk = NotWalking

Init ==
    /\ \E tagsB \in TagListsB, kindB \in ManifestKinds, bLow \in DepsBLow, bHigh \in DepsBHigh,
          depsC \in DepsC, tagsD \in TagListsD, dLow \in DepsDLow :
            registry = Registry(tagsB, kindB, bLow, bHigh, depsC, tagsD, dLow)
    /\ \E deps \in RootDepLists : manifest = Manifest("A", V100, deps)
    /\ cache = EmptyCache
    /\ pc = "start"
    /\ resolved = <<>>
    /\ error = NoError
    /\ vcs_log = <<>>
    /\ lock_file = <<>>
    /\ verify_result = NoError
    /\ edits = 0
    /\ install = NotInstalling
    /\ store = NotStoring
    /\ calc = NoCall
    /\ InitCli

ResolveAll ==
    /\ pc = "start"
    /\ LET out == resolve_all_dependencies(registry, manifest, cache)
       IN  /\ resolved' = out.result
           /\ error' = out.error
           /\ cache' = out.cache
           /\ vcs_log' = out.vcs_log
           /\ pc' = IF out.error = NoError THEN "resolved" ELSE "resolve_failed"
    /\ UNCHANGED <<registry, manifest, lock_file, verify_result, edits>>
    /\ UNCHANGED commandVars

GenerateLock ==
    /\ pc = "resolved"
    /\ LET out == generate_lock_file(manifest, resolved, cache)
       IN  /\ lock_file' = out.packages
           /\ error' = out.error
           /\ pc' = IF out.error = NoError THEN "locked" ELSE "lock_failed"
    /\ UNCHANGED <<registry, manifest, cache, resolved, vcs_log, verify_result, edits>>
    /\ UNCHANGED commandVars

VerifyLock ==
    /\ pc = "locked"
    /\ verify_result' = verify_lock_file(lock_file, cache)
    /\ pc' = "verified"
    /\ UNCHANGED <<registry, manifest, cache, resolved, error, vcs_log, lock_file, edits>>
    /\ UNCHANGED stepVars
    /\ UNCHANGED commandVars

Next == ResolveAll \/ GenerateLock \/ VerifyLock

Spec == Init /\ [][Next]_vars

----------------------------------------------------------------------------
(* Vocabulary of the properties *)

Range(s) == {s[i] : i \in 1..Len(s)}

IsRemoteEntry(e) == e.package_root.kind = "cache"

RemoteEntries == {e \in Range(resolved) : IsRemoteEntry(e)}

LocalEntries == {e \in Range(resolved) : ~IsRemoteEntry(e)}

\* The version the resolver selected for an entry: the cache directory it points at
ResolvedVersion(e) == e.package_root.version

RemoteDepsOf(m) == {d \in Range(m.dependencies) : d.path = NoPath}

Succeeded == pc \in {"resolved", "locked", "lock_failed", "verified"}

\* Remote edges of the resolved graph: the root's, and those of every resolved version
ResolvedEdges ==
    {<<manifest.address, d.address>> : d \in RemoteDepsOf(manifest)}
    \cup UNION {{<<e.address, d.address>> : d \in RemoteDepsOf(e.manifest)} : e \in RemoteEntries}

\* Remote edges any tagged version of any repository declares, plus the root's
DeclaredEdges ==
    {<<manifest.address, d.address>> : d \in RemoteDepsOf(manifest)}
    \cup UNION {UNION {{<<a, d.address>> : d \in RemoteDepsOf(registry[a].tree[v].manifest)} :
                         v \in Range(registry[a].tags)} : a \in Addrs}

RECURSIVE ReachFrom(_, _)
ReachFrom(seen, edges) ==
    LET more == seen \cup {e[2] : e \in {x \in edges : x[1] \in seen}}
    IN  IF more = seen THEN seen ELSE ReachFrom(more, edges)

Successors(a, edges) == {e[2] : e \in {x \in edges : x[1] = a}}

HasCycle(edges) ==
    \E e \in edges : e[1] \in ReachFrom(Successors(e[1], edges), edges)

----------------------------------------------------------------------------
(* Diamonds *)

RootDeclares(deps) ==
    Len(manifest.dependencies) = Cardinality(deps) /\ Range(manifest.dependencies) = deps

TagsOf(a) == Range(registry[a].tags)

DeclaredDepsAt(a, v) == registry[a].tree[v].manifest.dependencies

IsLeaf(a) == \A v \in TagsOf(a) : DeclaredDepsAt(a, v) = <<>>

EntriesFor(a) == {e \in RemoteEntries : e.address = a}

\* A -> B(^1.0.0), A -> C, C -> B(^1.2.0), B tagged 1.0.0, 1.2.0 and 1.5.0
DiamondScenario ==
    /\ RootDeclares({Remote("b", "B", V100), Remote("c", "C", V100)})
    /\ DeclaredDepsAt("C", V100) = <<Remote("b", "B", V120)>>
    /\ TagsOf("B") = {V100, V120, V150}
    /\ IsLeaf("B")

\* C1: in the diamond A -> B(^1.0.0), A -> C, C -> B(^1.2.0) with B tagged 1.0.0,
\* 1.2.0 and 1.5.0, resolve succeeds and its one entry for B is version 1.2.0
C1_DiamondConvergence ==
    (DiamondScenario /\ pc # "start") =>
        /\ Succeeded
        /\ Cardinality(EntriesFor("B")) = 1
        /\ \A e \in EntriesFor("B") : ResolvedVersion(e) = V120

\* the diamond resolved with B left at tag 1.0.0, whose manifest states 1.5.0
C1_Failure ==
    /\ DiamondScenario
    /\ pc = "resolved"
    /\ \E e \in EntriesFor("B") :
          ResolvedVersion(e) = V100 /\ e.manifest.present /\ e.manifest.version = V150

\* A -> B(^1.0.0), A -> C, C -> B(^2.0.0), and no tag of B is a 2.x
ConflictScenario ==
    /\ RootDeclares({Remote("b", "B", V100), Remote("c", "C", V100)})
    /\ DeclaredDepsAt("C", V100) = <<Remote("b", "B", V200)>>
    /\ IsLeaf("B")

\* C2: when no tag of B satisfies both ^1.0.0 and ^2.0.0, resolve fails with the
\* unsatisfiable-constraints TransitiveDependencyError and returns no graph
C2_DiamondConflict ==
    (ConflictScenario /\ pc # "start") =>
        /\ pc = "resolve_failed"
        /\ error = UnsatisfiableError
        /\ resolved = <<>>

\* the conflicting diamond resolved: B's one tag 1.0.0 carries a manifest
\* stating 2.0.0
C2_Failure ==
    /\ ConflictScenario
    /\ manifest.dependencies[1].address = "B"
    /\ pc = "resolved"
    /\ \E e \in EntriesFor("B") :
          ResolvedVersion(e) = V100 /\ e.manifest.present /\ e.manifest.version = V200

----------------------------------------------------------------------------
(* Cycles *)

\* C3: resolve never succeeds on a graph with a directed cycle in its remote
\* edges, the root's own address included: what it returns has no such cycle
C3_CycleDetectionComplete == pc = "resolved" => ~HasCycle(ResolvedEdges)

\* Remote edges between the entries of the result, the root's own left out
EntryEdges ==
    UNION {{<<e.address, d.address>> : d \in RemoteDepsOf(e.manifest)} : e \in RemoteEntries}

\* a successful resolve whose remote entries depend on each other in a circle
C3_Failure == pc = "resolved" /\ HasCycle(EntryEdges)

\* Remote edges declared by the package versions that were fetched into the cache
FetchedEdges ==
    UNION {UNION {{<<a, d.address>> : d \in RemoteDepsOf(cache[a][v].manifest)} :
                     v \in {w \in CacheVersions : cache[a][w].exists}} : a \in Addrs}

\* C4: the cycle error is raised only when the fetched package versions declare a
\* directed cycle of remote edges; a diamond or a re-resolved address alone never
\* raises it
C4_CycleDetectionSound == error = CycleError => HasCycle(FetchedEdges)

\* B was fetched at 1.0.0, then re-resolved to 1.2.0, in a universe without a cycle
C4_Witness ==
    /\ pc = "resolved"
    /\ ~HasCycle(DeclaredEdges)
    /\ cache["B"][V100].exists
    /\ \E e \in EntriesFor("B") : ResolvedVersion(e) = V120
    /\ EntriesFor("C") # {}

----------------------------------------------------------------------------
(* The resolved graph *)

DeclaringManifests == {manifest} \cup {e.manifest : e \in RemoteEntries}

\* C5: after a successful resolve, every remote dependency declared by the root
\* or by a resolved remote package has an entry whose resolved version satisfies
\* the declared constraint
C5_ConstraintsSatisfied ==
    pc = "resolved" =>
        \A m \in DeclaringManifests : \A d \in RemoteDepsOf(m) :
            \E e \in EntriesFor(d.address) : version_satisfies(ResolvedVersion(e), d.version)

\* C's resolved manifest asks for B ^1.2.0 and the result holds B's tag 1.0.0
C5_Failure ==
    /\ pc = "resolved"
    /\ \E c \in EntriesFor("C") : Remote("b", "B", V120) \in RemoteDepsOf(c.manifest)
    /\ \E e \in EntriesFor("B") : ResolvedVersion(e) = V100

\* Addresses reachable from the root through remote edges at the resolved versions
Closure == ReachFrom({d.address : d \in RemoteDepsOf(manifest)}, EntryEdges)

LocalsFirst ==
    \A i, j \in 1..Len(resolved) :
        (~IsRemoteEntry(resolved[i]) /\ IsRemoteEntry(resolved[j])) => i < j

\* C6: the remote entries of the result are, one per address, exactly the
\* addresses reachable from the root at the resolved versions, after the locals
C6_ExactClosure ==
    pc = "resolved" =>
        /\ {e.address : e \in RemoteEntries} = Closure
        /\ \A a \in Closure : Cardinality(EntriesFor(a)) = 1
        /\ LocalsFirst

\* an entry is returned for an address nothing reachable from the root requires
C6_Failure ==
    /\ pc = "resolved"
    /\ \E e \in RemoteEntries : e.address \notin Closure

PathDepsOf(m) == {d \in Range(m.dependencies) : d.path # NoPath}

CallsFor(alias, address) ==
    {i \in 1..Len(vcs_log) : vcs_log[i].alias = alias /\ vcs_log[i].address = address}

\* C7: a root dependency with a path causes no tag listing and no clone, and no
\* dependency of the local package's own manifest is listed, cloned or resolved
C7_LocalSkipsVcs ==
    \A d \in PathDepsOf(manifest) :
        /\ CallsFor(d.alias, d.address) = {}
        /\ \A sub \in RemoteDepsOf(LocalDir(d.path).manifest) :
              /\ CallsFor(sub.alias, sub.address) = {}
              /\ EntriesFor(sub.address) = {}

\* a local package was resolved next to remote ones that did go through the VCS
C7_Witness ==
    /\ pc = "resolved"
    /\ \E e \in LocalEntries :
          e.manifest.present /\ RemoteDepsOf(e.manifest) # {}
    /\ \E i \in 1..Len(vcs_log) : vcs_log[i].op = "clone"

----------------------------------------------------------------------------
(* The lock file *)

LockedAddrs == {p.address : p \in Range(lock_file)}

\* C8: the keys of the generated lock are exactly the addresses of the remote
\* entries of the resolved graph
C8_LockIsRemoteSubset == pc = "locked" => LockedAddrs = {e.address : e \in RemoteEntries}

\* a remote entry of the resolved graph is missing from the generated lock
C8_Failure ==
    /\ pc = "locked"
    /\ \E e \in RemoteEntries : e.address \notin LockedAddrs

EntryOk(p) ==
    /\ CachedDir(cache, p.address, p.version).exists
    /\ compute_directory_hash(CachedDir(cache, p.address, p.version)) = p.hash

\* C9: every entry of a freshly generated lock names a cache directory that
\* exists with the locked hash, and verifying the fresh lock succeeds
C9_FreshLockVerifies ==
    /\ pc = "locked" => \A p \in Range(lock_file) : EntryOk(p)
    /\ pc = "verified" => verify_result = NoError

\* verifying the untouched cache against the fresh lock raised IntegrityError
C9_Failure ==
    /\ pc = "verified"
    /\ edits = 0
    /\ verify_result = IntegrityError

----------------------------------------------------------------------------
(* Integrity: the cache is edited between locking and verifying *)

MaxEdits == 2

InitIntegrity ==
    /\ \E tagsB \in TagListsB, kindB \in ManifestKinds, depsC \in {<<>>, <<Remote("b", "B", V120)>>} :
            registry = Registry(tagsB, kindB, <<>>, <<>>, depsC, <<V100>>, <<>>)
    /\ \E deps \in RootDepLists : manifest = Manifest("A", V100, deps)
    /\ cache = EmptyCache
    /\ pc = "start"
    /\ resolved = <<>>
    /\ error = NoError
    /\ vcs_log = <<>>
    /\ lock_file = <<>>
    /\ verify_result = NoError
    /\ edits = 0
    /\ install = NotInstalling
    /\ store = NotStoring
    /\ calc = NoCall
    /\ InitCli

\* A file of a cached package is rewritten, or a .git/ directory appears in it
EditCached ==
    /\ pc = "locked"
    /\ edits < MaxEdits
    /\ \E a \in Addrs, v \in CacheVersions, b \in {1, 2}, g \in BOOLEAN :
          /\ cache[a][v].exists
          /\ <<b, g>> # <<cache[a][v].bundle, cache[a][v].git>>
          /\ cache' = [cache EXCEPT ![a][v].bundle = b, ![a][v].git = g]
    /\ edits' = edits + 1
    /\ UNCHANGED <<registry, manifest, pc, resolved, error, vcs_log, lock_file, verify_result>>
    /\ UNCHANGED commandVars

\* remove_cached_package on a cached version
RemoveCached ==
    /\ pc = "locked"
    /\ edits < MaxEdits
    /\ \E a \in Addrs, v \in CacheVersions :
          /\ cache[a][v].exists
          /\ cache' = remove_cached_package(cache, a, v)
    /\ edits' = edits + 1
    /\ UNCHANGED <<registry, manifest, pc, resolved, error, vcs_log, lock_file, verify_result>>
    /\ UNCHANGED commandVars

NextIntegrity == ResolveAll \/ GenerateLock \/ EditCached \/ RemoveCached \/ VerifyLock

SpecIntegrity == InitIntegrity /\ [][NextIntegrity]_vars

EntryAbsent(p) == ~CachedDir(cache, p.address, p.version).exists

HashDiffers(p) == compute_directory_hash(CachedDir(cache, p.address, p.version)) # p.hash

\* C10: verify_lock_file raises IntegrityError exactly when some locked entry's
\* cache directory is absent or hashes to something else than the locked hash
C10_VerifyIffBroken ==
    pc = "verified" =>
        (verify_result = IntegrityError
            <=> \E p \in Range(lock_file) : EntryAbsent(p) \/ HashDiffers(p))

\* every locked directory is still there, one was rewritten, and verify raised
C10_Witness ==
    /\ pc = "verified"
    /\ verify_result = IntegrityError
    /\ lock_file # <<>>
    /\ \A p \in Range(lock_file) : ~EntryAbsent(p)
    /\ \E p \in Range(lock_file) : HashDiffers(p)

----------------------------------------------------------------------------
(* mthds/cli/commands/install_cmd.py: do_install, one action per step *)

MaxLocked == 2

\* Process outcomes: normal return, typer.Exit(code=1), an uncaught exception
ExitOk == "ok"
ExitOne == "exit 1"
ExitCrash == "uncaught exception"

\* address.rsplit("/")[-1] with - and . replaced, lowercased, must be snake_case
\* for PackageDependency to validate; the last segment of D starts with a digit
DerivedAliasValid(address) == address # "D"

derived_alias(address) == address

\* What a cache directory named by the lock holds before the command runs
CacheStates == {"absent", "intact", "altered", "emptied"}

CacheDirIn(state, reg, address, version) ==
    LET tree == reg[address].tree[version]
    IN  CASE state = "intact" /\ tree.exists -> tree
          [] state = "altered" /\ tree.exists -> [tree EXCEPT !.bundle = 2]
          [] state = "emptied" -> Dir(NoManifest, 0, FALSE)
          [] OTHER -> NoDir

\* A hash no tree of the registry has
WrongHash == compute_directory_hash(Dir(NoManifest, 2, FALSE))

LockEntryPool(reg) ==
    {LockedPackage(a, v, h, <<"https://", a>>) :
        a \in {"B", "C", "D", "E"}, v \in {V100, V120},
        h \in {WrongHash}} \cup
    {LockedPackage(a, v, compute_directory_hash(reg[a].tree[v]), <<"https://", a>>) :
        a \in {"B", "C", "D", "E"}, v \in {V100, V120}}

\* methods.lock: a table per address
LockFiles(reg) ==
    {s \in UNION {[1..n -> LockEntryPool(reg)] : n \in 0..MaxLocked} :
        \A i, j \in 1..Len(s) : i # j => s[i].address # s[j].address}

InitInstall ==
    /\ \E tagsB \in TagListsB, kindB \in {"tag", "none"} :
            registry = Registry(tagsB, kindB, <<>>, <<>>, <<>>, <<V100>>, <<>>)
    /\ manifest = Manifest("A", V100, <<>>)
    /\ lock_file \in LockFiles(registry)
    /\ \E states \in [1..Len(lock_file) -> CacheStates] :
          cache = [a \in Addrs |-> [v \in CacheVersions |->
                     IF \E i \in 1..Len(lock_file) :
                            lock_file[i].address = a /\ lock_file[i].version = v
                     THEN CacheDirIn(states[CHOOSE i \in 1..Len(lock_file) :
                                                lock_file[i].address = a], registry, a, v)
                     ELSE NoDir]]
    /\ \E present \in BOOLEAN :
          /\ install = [NotInstalling EXCEPT !.lock_present = present,
                                             !.cache_before = cache]
          /\ ~present => lock_file = <<>>
    /\ store = NotStoring
    /\ calc = NoCall
    /\ InitCli
    /\ pc = "install_start"
    /\ resolved = <<>>
    /\ error = NoError
    /\ vcs_log = <<>>
    /\ verify_result = NoError
    /\ edits = 0

\* lines 18-37: no lock file, an empty lock file, or the loop begins
InstallBegin ==
    /\ pc = "install_start"
    /\ IF ~install.lock_present
       THEN /\ install' = [install EXCEPT !.exit = ExitOne]
            /\ pc' = "install_done"
       ELSE IF lock_file = <<>>
       THEN /\ install' = [install EXCEPT !.exit = ExitOk]
            /\ pc' = "install_done"
       ELSE /\ install' = [install EXCEPT !.i = 1]
            /\ pc' = "install_loop"
    /\ UNCHANGED <<registry, manifest, cache, resolved, error, vcs_log, lock_file,
                   verify_result, edits>>
    /\ UNCHANGED stepVars

\* the failure printed and swallowed, the loop going on
AfterFetchKeepGoing(inst, fetch_error, last) ==
    [install |-> [inst EXCEPT !.fetched_count = @ + 1, !.i = @ + 1],
     pc |-> IF last THEN "install_verify" ELSE "install_loop"]

\* lines 50-56: DependencyResolveError ends the command with typer.Exit(code=1)
AfterFetch(inst, fetch_error, last) ==
    IF fetch_error # NoError
    THEN [install |-> [inst EXCEPT !.exit = ExitOne], pc |-> "install_done"]
    ELSE [install |-> [inst EXCEPT !.fetched_count = @ + 1, !.i = @ + 1],
          pc |-> IF last THEN "install_verify" ELSE "install_loop"]

\* lines 39-56: one iteration of the loop over lock_file.packages
InstallPackage ==
    /\ pc = "install_loop"
    /\ install.i <= Len(lock_file)
    /\ LET locked == lock_file[install.i]
           dep == Dep(derived_alias(locked.address), locked.address, Exact(locked.version), NoPath)
           st == [FreshResolverState(cache) EXCEPT !.vcs_log = vcs_log]
           got == resolve_remote_dependency(registry, st, dep)
           last == install.i = Len(lock_file)
       IN  IF is_cached(cache, locked.address, locked.version)
           THEN /\ install' = [install EXCEPT !.cached_count = @ + 1, !.i = @ + 1]
                /\ pc' = IF last THEN "install_verify" ELSE "install_loop"
                /\ UNCHANGED <<cache, vcs_log, error>>
           ELSE IF ~DerivedAliasValid(locked.address)
           THEN /\ install' = [install EXCEPT !.exit = ExitCrash]
                /\ pc' = "install_done"
                /\ UNCHANGED <<cache, vcs_log, error>>
           ELSE /\ cache' = got.cache
                /\ vcs_log' = got.vcs_log
                /\ error' = got.error
                /\ install' = AfterFetch(install, got.error, last).install
                /\ pc' = AfterFetch(install, got.error, last).pc
    /\ UNCHANGED <<registry, manifest, resolved, lock_file, verify_result, edits>>
    /\ UNCHANGED stepVars

\* the summary line printed without verify_lock_file having run
InstallWithoutVerify ==
    /\ pc = "install_verify"
    /\ install' = [install EXCEPT !.exit = ExitOk]
    /\ pc' = "install_done"
    /\ UNCHANGED <<registry, manifest, cache, resolved, error, vcs_log, lock_file,
                   verify_result, edits>>
    /\ UNCHANGED stepVars

\* lines 58-65: verify_lock_file, then the summary line
InstallVerify ==
    /\ pc = "install_verify"
    /\ verify_result' = verify_lock_file(lock_file, cache)
    /\ install' = [install EXCEPT
                     !.exit = IF verify_lock_file(lock_file, cache) = NoError
                              THEN ExitOk ELSE ExitOne]
    /\ pc' = "install_done"
    /\ UNCHANGED <<registry, manifest, cache, resolved, error, vcs_log, lock_file, edits>>
    /\ UNCHANGED stepVars

NextInstall == InstallBegin \/ InstallPackage \/ InstallVerify

SpecInstall == InitInstall /\ [][NextInstall]_vars

\* C11: once the fetch of a locked package has failed, do_install has ended with
\* exit code 1 and verify_lock_file cannot run any more
C11_FetchFailureAborts ==
    error # NoError =>
        /\ pc = "install_done"
        /\ install.exit = ExitOne
        /\ ~ENABLED InstallVerify
        /\ ~ENABLED InstallPackage

\* the first locked package was there or was fetched, the fetch of the second failed
C11_Witness ==
    /\ error = ResolveError
    /\ install.i = 2
    /\ pc = "install_done"
    /\ \E i \in 1..Len(vcs_log) : vcs_log[i].address = lock_file[2].address

(* do_install against the cache it found *)

\* the directory the lock entry names, as the command found it
DirBefore(p) == CachedDir(install.cache_before, p.address, p.version)

CachedBefore(p) == is_cached(install.cache_before, p.address, p.version)

\* the directory was there with content of another hash than the locked one
AlteredBefore(p) == DirBefore(p).exists /\ compute_directory_hash(DirBefore(p)) # p.hash

FetchedAgain(p) == \E i \in 1..Len(vcs_log) : vcs_log[i].address = p.address

LoopCompleted == install.i > Len(lock_file)

\* C12 as stated: success only with every entry present and matching; any entry
\* whose cached content hashes differently makes the command fail with the
\* integrity error; entries already cached are not fetched again
C12_AlteredAlwaysIntegrityError ==
    pc = "install_done" =>
        /\ install.exit = ExitOk => \A p \in Range(lock_file) : EntryOk(p)
        /\ (\E p \in Range(lock_file) : AlteredBefore(p)) =>
                install.exit = ExitOne /\ verify_result = IntegrityError
        /\ \A p \in Range(lock_file) : CachedBefore(p) => ~FetchedAgain(p)

\* C12: success only with every entry present and matching; an entry that is
\* cached (a non-empty directory) with another hash makes the command fail, with
\* the integrity error once the loop over the entries has completed; entries
\* already cached are not fetched again
C12_InstallContract ==
    pc = "install_done" =>
        /\ install.exit = ExitOk => \A p \in Range(lock_file) : EntryOk(p)
        /\ (\E p \in Range(lock_file) : CachedBefore(p) /\ AlteredBefore(p)) =>
                /\ install.exit # ExitOk
                /\ LoopCompleted => install.exit = ExitOne /\ verify_result = IntegrityError
        /\ \A p \in Range(lock_file) : CachedBefore(p) => ~FetchedAgain(p)

\* one entry was fetched, the other was cached with altered content and was left
\* alone, and the verification raised
C12_Witness ==
    /\ pc = "install_done"
    /\ install.fetched_count = 1
    /\ install.cached_count = 1
    /\ \E p \in Range(lock_file) : CachedBefore(p) /\ AlteredBefore(p) /\ ~FetchedAgain(p)
    /\ verify_result = IntegrityError
    /\ install.exit = ExitOne

----------------------------------------------------------------------------
(* mthds/packages/package_cache.py: store_in_cache, one file system call at  *)
(* a time.  A directory is [exists, files]; a file is <<name, bytes>>.  Both *)
(* writers store the same (address, version), so they share final_path and   *)
(* staging_path = final_path.parent / "<version>.staging".                   *)

Writers == {1, 2}

FsNone == [exists |-> FALSE, files |-> {}]

FsDir(files) == [exists |-> TRUE, files |-> files]

Names(files) == {f[1] : f \in files}

\* the package as published: every writer clones the same bytes
NewFiles == {<<"METHODS.toml", "new">>, <<"main.mthds", "new">>}

OldFiles == {<<"METHODS.toml", "old">>, <<"main.mthds", "old">>}

GitFiles == {<<".git", "new">>}

\* is_cached on final_path: a directory that is not empty
FsIsCached(d) == d.exists /\ d.files # {}

Stopped == {"idle", "done", "failed", "cancelled"}

StoreState(final, staging, sources, pcs) ==
    [started |-> TRUE, final |-> final, staging |-> staging, source |-> sources,
     pc |-> pcs, todo |-> [w \in Writers |-> {}], final_before |-> final]

InitStoreWith(pcs) ==
    /\ registry = Registry(<<V100>>, "tag", <<>>, <<>>, <<>>, <<V100>>, <<>>)
    /\ manifest = Manifest("A", V100, <<>>)
    /\ cache = EmptyCache
    /\ pc = "store"
    /\ resolved = <<>>
    /\ error = NoError
    /\ vcs_log = <<>>
    /\ lock_file = <<>>
    /\ verify_result = NoError
    /\ edits = 0
    /\ install = NotInstalling
    /\ calc = NoCall
    /\ InitCli
    /\ \E final \in {FsNone, FsDir({}), FsDir(OldFiles)},
          staging \in {FsNone, FsDir({<<"main.mthds", "old">>})},
          git \in [Writers -> BOOLEAN] :
            store = StoreState(final, staging,
                               [w \in Writers |-> NewFiles \cup (IF git[w] THEN GitFiles ELSE {})],
                               pcs)

\* one call, which may be interrupted
InitStoreOne == InitStoreWith([w \in Writers |-> IF w = 1 THEN "start" ELSE "idle"])

\* two processes calling at the same time
InitStoreTwo == InitStoreWith([w \in Writers |-> "start"])

Goto(w, label) == [store EXCEPT !.pc[w] = label]

Frame == UNCHANGED <<registry, manifest, cache, pc, resolved, error, vcs_log, lock_file,
                     verify_result, edits, install, calc, cliVars>>

\* line 94: if staging_path.exists()
CheckStaging(w) ==
    /\ store.pc[w] = "start"
    /\ store' = IF store.staging.exists
                THEN [Goto(w, "rm_staging") EXCEPT !.todo[w] = Names(store.staging.files)]
                ELSE Goto(w, "copytree")
    /\ Frame

\* shutil.rmtree(path): the entries listed when it began are unlinked one by one,
\* then the directory is removed; a missing entry or directory is an OSError
RmtreeStep(w, d, todo) ==
    IF ~d.exists THEN [ok |-> FALSE, dir |-> d, todo |-> {}, finished |-> FALSE]
    ELSE IF todo = {}
    THEN IF d.files = {}
         THEN [ok |-> TRUE, dir |-> FsNone, todo |-> {}, finished |-> TRUE]
         ELSE [ok |-> FALSE, dir |-> d, todo |-> {}, finished |-> FALSE]
    ELSE LET name == CHOOSE n \in todo : TRUE
         IN  IF name \in Names(d.files)
             THEN [ok |-> TRUE, dir |-> FsDir({f \in d.files : f[1] # name}),
                   todo |-> todo \ {name}, finished |-> FALSE]
             ELSE [ok |-> FALSE, dir |-> d, todo |-> {}, finished |-> FALSE]

\* line 95: shutil.rmtree(staging_path)
RemoveStaging(w) ==
    /\ store.pc[w] = "rm_staging"
    /\ LET r == RmtreeStep(w, store.staging, store.todo[w])
       IN  store' = IF ~r.ok THEN Goto(w, "except")
                    ELSE [store EXCEPT !.staging = r.dir, !.todo[w] = r.todo,
                                       !.pc[w] = IF r.finished THEN "copytree" ELSE @]
    /\ Frame

\* line 98: shutil.copytree begins with os.makedirs(dst), which fails if dst exists
CopytreeMkdir(w) ==
    /\ store.pc[w] = "copytree"
    /\ store' = IF store.staging.exists THEN Goto(w, "except")
                ELSE [store EXCEPT !.staging = FsDir({}), !.pc[w] = "copy_files",
                                   !.todo[w] = Names(store.source[w])]
    /\ Frame

\* line 98: shutil.copytree copies the entries of the source one by one
CopyFile(w) ==
    /\ store.pc[w] = "copy_files"
    /\ IF store.todo[w] = {}
       THEN store' = Goto(w, "check_git")
       ELSE \E name \in store.todo[w] :
              store' = IF ~store.staging.exists THEN Goto(w, "except")
                       ELSE [store EXCEPT
                               !.staging.files = {f \in @ : f[1] # name} \cup
                                                 {f \in store.source[w] : f[1] = name},
                               !.todo[w] = @ \ {name}]
    /\ Frame

\* lines 101-102: if git_dir.exists()
CheckGit(w) ==
    /\ store.pc[w] = "check_git"
    /\ store' = IF ".git" \in Names(store.staging.files)
                THEN Goto(w, "rm_git") ELSE Goto(w, "check_final")
    /\ Frame

\* a removal that takes the whole staging tree with the .git directory
RemoveGitAndPayload(w) ==
    /\ store.pc[w] = "rm_git"
    /\ store' = [store EXCEPT !.staging.files = {}, !.pc[w] = "check_final"]
    /\ Frame

\* line 103: shutil.rmtree(git_dir)
RemoveGit(w) ==
    /\ store.pc[w] = "rm_git"
    /\ store' = IF ".git" \in Names(store.staging.files)
                THEN [store EXCEPT !.staging.files = {f \in @ : f[1] # ".git"},
                                   !.pc[w] = "check_final"]
                ELSE Goto(w, "except")
    /\ Frame

\* lines 106-107: the parent exists; if final_path.exists()
CheckFinal(w) ==
    /\ store.pc[w] = "check_final"
    /\ store' = IF store.final.exists
                THEN [Goto(w, "rm_final") EXCEPT !.todo[w] = Names(store.final.files)]
                ELSE Goto(w, "rename")
    /\ Frame

\* line 108: shutil.rmtree(final_path)
RemoveFinal(w) ==
    /\ store.pc[w] = "rm_final"
    /\ LET r == RmtreeStep(w, store.final, store.todo[w])
       IN  store' = IF ~r.ok THEN Goto(w, "except")
                    ELSE [store EXCEPT !.final = r.dir, !.todo[w] = r.todo,
                                       !.pc[w] = IF r.finished THEN "rename" ELSE @]
    /\ Frame

\* line 109: staging_path.rename(final_path): the source must exist, and a
\* directory can only replace an empty directory
Rename(w) ==
    /\ store.pc[w] = "rename"
    /\ store' = IF ~store.staging.exists \/ store.final.files # {}
                THEN Goto(w, "except")
                ELSE [store EXCEPT !.final = store.staging, !.staging = FsNone,
                                   !.pc[w] = "done"]
    /\ Frame

\* lines 111-116: except OSError: remove the staging directory, raise PackageCacheError
HandleOSError(w) ==
    /\ store.pc[w] = "except"
    /\ store' = [store EXCEPT !.staging = FsNone, !.pc[w] = "failed"]
    /\ Frame

\* a file system call inside the try block fails on its own (disk full, permissions)
IOFailure(w) ==
    /\ store.pc[w] \notin Stopped \cup {"except"}
    /\ store' = Goto(w, "except")
    /\ Frame

\* the process is interrupted or killed between two file system calls
Cancel(w) ==
    /\ store.pc[w] \notin Stopped
    /\ store' = Goto(w, "cancelled")
    /\ Frame

StoreStep(w) ==
    \/ CheckStaging(w) \/ RemoveStaging(w) \/ CopytreeMkdir(w) \/ CopyFile(w)
    \/ CheckGit(w) \/ RemoveGit(w) \/ CheckFinal(w) \/ RemoveFinal(w)
    \/ Rename(w) \/ HandleOSError(w)

NextStoreOne == \E w \in Writers : StoreStep(w) \/ IOFailure(w) \/ Cancel(w)

NextStoreTwo == \E w \in Writers : StoreStep(w)

SpecStoreOne == InitStoreOne /\ [][NextStoreOne]_vars

SpecStoreTwo == InitStoreTwo /\ [][NextStoreTwo]_vars

\* C13: at every step of a store_in_cache call, interrupted or not, the final
\* directory holds the complete previous content or the complete new content, a
\* package cached before the call stays cached, and only the rename changes
\* what is_cached observes
C13_ConsistentAtEveryStep ==
    [][/\ store'.final.files \in {store.final_before.files, NewFiles}
       /\ FsIsCached(store.final_before) => FsIsCached(store'.final)
       /\ FsIsCached(store'.final) # FsIsCached(store.final) =>
              \E w \in Writers : store.pc[w] = "rename" /\ store'.pc[w] = "done"]_vars

\* the call was interrupted after rmtree(final_path) and before the rename: the
\* package that was cached is gone and the new content sits in the staging directory
C13_Failure ==
    /\ store.started
    /\ store.pc[1] = "cancelled"
    /\ store.final_before = FsDir(OldFiles)
    /\ ~store.final.exists
    /\ store.staging = FsDir(NewFiles)

\* C14: when two store_in_cache calls for the same (address, version) have both
\* ended, both returned without error and the final directory holds the complete
\* package
C14_BothWritersSucceed ==
    (store.started /\ \A w \in Writers : store.pc[w] \in Stopped) =>
        /\ \A w \in Writers : store.pc[w] = "done"
        /\ store.final = FsDir(NewFiles)

\* one writer returned, the other raised PackageCacheError after removing what
\* the first had stored: nothing is cached
C14_Failure ==
    /\ store.started
    /\ \E w, x \in Writers : store.pc[w] = "done" /\ store.pc[x] = "failed"
    /\ ~store.final.exists
    /\ store.final_before = FsNone

----------------------------------------------------------------------------
(* Calls of single functions.  The initial state holds the arguments, the    *)
(* action applies the function and records what it returned or raised.       *)

InitCallFrom(calls) ==
    /\ registry = Registry(<<V100>>, "tag", <<>>, <<>>, <<>>, <<V100>>, <<>>)
    /\ manifest = Manifest("A", V100, <<>>)
    /\ cache = EmptyCache
    /\ pc = "call"
    /\ resolved = <<>>
    /\ error = NoError
    /\ vcs_log = <<>>
    /\ lock_file = <<>>
    /\ verify_result = NoError
    /\ edits = 0
    /\ install = NotInstalling
    /\ store = NotStoring
    /\ calc \in calls
    /\ InitCli

CallFrame == UNCHANGED <<registry, manifest, cache, resolved, error, vcs_log, lock_file,
                         verify_result, edits, install, store, cliVars>>

----------------------------------------------------------------------------
(* mthds/packages/package_cache.py: the path of a cache entry.  A path is the *)
(* sequence of its segments; an address or a version string splits at "/".    *)

MaxSegments == 3

CacheRoot == <<"home", ".mthds", "packages">>

PackageCacheError == "PackageCacheError"

RECURSIVE Lexical(_, _)
\* what the file system makes of a path: ".." leaves the directory reached so far
Lexical(done, rest) ==
    IF rest = <<>> THEN done
    ELSE IF Head(rest) = ".."
         THEN Lexical(IF done = <<>> THEN <<>> ELSE SubSeq(done, 1, Len(done) - 1), Tail(rest))
         ELSE Lexical(Append(done, Head(rest)), Tail(rest))

IsUnder(root, path) == Len(path) >= Len(root) /\ SubSeq(path, 1, Len(root)) = root

\* lines 39-40: root / address / version, whatever the segments are
cached_package_path(root, address, version) ==
    [raised |-> "none", path |-> root \o address \o version]

SegmentSeqs(pool, n) == UNION {[1..k -> pool] : k \in 1..n}

CacheOperations == {"is_cached", "store_in_cache", "remove_cached_package"}

PathCalls ==
    [fn : CacheOperations,
     address : SegmentSeqs({"org", "repo", ".."}, MaxSegments),
     version : SegmentSeqs({"1.0.0", ".."}, 2),
     state : {"called"}, raised : {"none"}, touched : {<<>>}]

InitPath == InitCallFrom(PathCalls)

\* is_cached, store_in_cache and remove_cached_package: each begins with
\* get_cached_package_path and then reads, writes or deletes at that path
CacheOperation ==
    /\ pc = "call"
    /\ calc.state = "called"
    /\ LET got == cached_package_path(CacheRoot, calc.address, calc.version)
       IN  calc' = [calc EXCEPT !.state = "returned",
                                !.raised = got.raised,
                                !.touched = IF got.raised = "none"
                                            THEN Lexical(<<>>, got.path) ELSE <<>>]
    /\ pc' = "returned"
    /\ CallFrame

NextPath == CacheOperation

SpecPath == InitPath /\ [][NextPath]_vars

HasDotDot(segments) == \E i \in 1..Len(segments) : segments[i] = ".."

\* C15: a call with a ".." segment in the address or the version raises
\* PackageCacheError, and no cache operation touches a path outside cache_root
C15_TraversalRejected ==
    pc = "returned" =>
        /\ (HasDotDot(calc.address) \/ HasDotDot(calc.version)) => calc.raised = PackageCacheError
        /\ calc.raised = "none" => IsUnder(CacheRoot, calc.touched)

\* remove_cached_package with ".." in the address went through and deleted a
\* directory that is not under the cache root
C15_Failure ==
    /\ pc = "returned"
    /\ calc.fn = "remove_cached_package"
    /\ HasDotDot(calc.address)
    /\ calc.raised = "none"
    /\ ~IsUnder(CacheRoot, calc.touched)

----------------------------------------------------------------------------
(* resolve_all_dependencies: what a failed call leaves behind *)

CachedEntries(c) ==
    {<<a, v>> \in Addrs \X CacheVersions : CachedDir(c, a, v).exists}

\* C16: a resolve_all_dependencies call that fails leaves the cache with exactly
\* the entries it held before the call and leaves the root manifest unchanged
C16_FailedResolveLeavesCacheUntouched ==
    [][pc' = "resolve_failed" => cache' = cache /\ manifest' = manifest]_vars

\* the walk failed after a dependency had been fetched and stored
C16_Failure ==
    /\ pc = "resolve_failed"
    /\ error \in {ResolveError, UnsatisfiableError, CycleError}
    /\ CachedEntries(cache) # {}
    /\ \E i \in 1..Len(vcs_log) : vcs_log[i].op = "clone"

----------------------------------------------------------------------------
(* mthds/package/visibility.py.  A domain path is the sequence of its dotted  *)
(* segments.  A raw reference string is the record of its parts: the alias    *)
(* before "->" if there is one, the domain path before the last dot if there  *)
(* is one, the local code, and whether the local code is snake_case.          *)

MaxBundles == 3

NoManifestGiven == [present |-> FALSE, exports |-> <<>>, aliases |-> {}]

NoAlias == "<no alias>"
NoDomain == <<>>
NoPipe == "<no main_pipe>"

RESERVED_DOMAINS == {"native", "mthds", "pipelex"}

is_reserved_domain_path(domain_path) == domain_path[1] \in RESERVED_DOMAINS

RawRef(alias, domain_path, local_code, snake) ==
    [alias |-> alias, domain_path |-> domain_path, local_code |-> local_code, snake |-> snake]

BundleMetadata(domain, main_pipe, pipe_references) ==
    [domain |-> domain, main_pipe |-> main_pipe, pipe_references |-> pipe_references]

VisibilityError(kind, pipe_ref, source_domain, target_domain) ==
    [kind |-> kind, pipe_ref |-> pipe_ref, source_domain |-> source_domain,
     target_domain |-> target_domain]

\* QualifiedRef.parse_pipe_ref: the local code and every domain segment must be
\* snake_case; a string with "->" in it never is
parse_pipe_ref(raw) ==
    IF raw.alias # NoAlias \/ ~raw.snake
    THEN [ok |-> FALSE, domain_path |-> NoDomain, local_code |-> ""]
    ELSE [ok |-> TRUE, domain_path |-> raw.domain_path, local_code |-> raw.local_code]

\* lines 49-52: exported_pipes[domain_path] = set(pipes), for a manifest
exported_pipes(m, domain) ==
    IF m.present /\ \E i \in 1..Len(m.exports) : m.exports[i].domain_path = domain
    THEN (CHOOSE e \in Range(m.exports) : e.domain_path = domain).pipes
    ELSE {}

\* the dict main_pipes[domain_path] = main_pipe, as a list of its items
MainPipeHas(main_pipes, domain) == \E i \in 1..Len(main_pipes) : main_pipes[i].domain = domain

MainPipeGet(main_pipes, domain) ==
    main_pipes[CHOOSE i \in 1..Len(main_pipes) : main_pipes[i].domain = domain].main_pipe

RECURSIVE MainPipesLoop(_, _)
\* lines 55-67: the first main_pipe seen for a domain is kept
MainPipesLoop(bundle_metadatas, main_pipes) ==
    IF bundle_metadatas = <<>> THEN main_pipes
    ELSE LET metadata == Head(bundle_metadatas)
             existing == IF MainPipeHas(main_pipes, metadata.domain)
                         THEN MainPipeGet(main_pipes, metadata.domain) ELSE NoPipe
         IN  IF metadata.main_pipe = NoPipe \/ existing # NoPipe
             THEN MainPipesLoop(Tail(bundle_metadatas), main_pipes)
             ELSE MainPipesLoop(Tail(bundle_metadatas),
                                Append(main_pipes, [domain |-> metadata.domain,
                                                    main_pipe |-> metadata.main_pipe]))

\* only [exports] opens a pipe to another domain
AccessibleByExportsOnly(m, bundle_metadatas, pipe_ref, source_domain) ==
    \/ ~m.present
    \/ pipe_ref.domain_path = NoDomain
    \/ pipe_ref.domain_path = source_domain
    \/ pipe_ref.local_code \in exported_pipes(m, pipe_ref.domain_path)

\* lines 69-101
is_pipe_accessible_from(m, bundle_metadatas, pipe_ref, source_domain) ==
    LET main_pipes == MainPipesLoop(bundle_metadatas, <<>>)
    IN  \/ ~m.present
        \/ pipe_ref.domain_path = NoDomain
        \/ pipe_ref.domain_path = source_domain
        \/ pipe_ref.local_code \in exported_pipes(m, pipe_ref.domain_path)
        \/ /\ MainPipeHas(main_pipes, pipe_ref.domain_path)
           /\ MainPipeGet(main_pipes, pipe_ref.domain_path) = pipe_ref.local_code

RECURSIVE PipeReferencesLoop(_, _, _, _, _)
\* lines 114-137: for metadata in bundles, for (pipe_ref_str, context) in its references
PipeReferencesLoop(m, all, bundle_metadatas, refs, errors) ==
    IF bundle_metadatas = <<>> THEN errors
    ELSE IF refs = <<>>
    THEN IF Len(bundle_metadatas) = 1 THEN errors
         ELSE PipeReferencesLoop(m, all, Tail(bundle_metadatas),
                                 bundle_metadatas[2].pipe_references, errors)
    ELSE LET metadata == Head(bundle_metadatas)
             ref == parse_pipe_ref(Head(refs))
         IN  IF ref.ok /\ ~is_pipe_accessible_from(m, all, ref, metadata.domain)
             THEN PipeReferencesLoop(m, all, bundle_metadatas, Tail(refs),
                      Append(errors, VisibilityError("pipe", Head(refs), metadata.domain,
                                                     ref.domain_path)))
             ELSE PipeReferencesLoop(m, all, bundle_metadatas, Tail(refs), errors)

\* lines 103-139
validate_all_pipe_references(m, bundle_metadatas) ==
    IF ~m.present \/ bundle_metadatas = <<>> THEN <<>>
    ELSE PipeReferencesLoop(m, bundle_metadatas, bundle_metadatas,
                            bundle_metadatas[1].pipe_references, <<>>)

RECURSIVE CrossPackageLoop(_, _, _, _)
\* lines 157-191: a "->" reference whose alias is not a dependency of the manifest
CrossPackageLoop(m, bundle_metadatas, refs, errors) ==
    IF bundle_metadatas = <<>> THEN errors
    ELSE IF refs = <<>>
    THEN IF Len(bundle_metadatas) = 1 THEN errors
         ELSE CrossPackageLoop(m, Tail(bundle_metadatas),
                               bundle_metadatas[2].pipe_references, errors)
    ELSE LET metadata == Head(bundle_metadatas)
             raw == Head(refs)
         IN  IF raw.alias # NoAlias /\ raw.alias \notin m.aliases
             THEN CrossPackageLoop(m, bundle_metadatas, Tail(refs),
                      Append(errors, VisibilityError("cross-package", raw, metadata.domain,
                                                     <<raw.alias>>)))
             ELSE CrossPackageLoop(m, bundle_metadatas, Tail(refs), errors)

\* lines 141-193
validate_cross_package_references(m, bundle_metadatas) ==
    IF ~m.present \/ bundle_metadatas = <<>> THEN <<>>
    ELSE CrossPackageLoop(m, bundle_metadatas, bundle_metadatas[1].pipe_references, <<>>)

RECURSIVE validate_reserved_domains(_)
\* lines 195-220: no look at the manifest
validate_reserved_domains(bundle_metadatas) ==
    IF bundle_metadatas = <<>> THEN <<>>
    ELSE LET metadata == Head(bundle_metadatas)
         IN  (IF is_reserved_domain_path(metadata.domain)
              THEN <<VisibilityError("reserved", "", metadata.domain, <<metadata.domain[1]>>)>>
              ELSE <<>>) \o validate_reserved_domains(Tail(bundle_metadatas))

\* lines 223-242
check_visibility(m, bundle_metadatas) ==
    validate_reserved_domains(bundle_metadatas)
        \o validate_all_pipe_references(m, bundle_metadatas)
        \o validate_cross_package_references(m, bundle_metadatas)

Domains == {<<"scoring">>, <<"legal">>, <<"native", "tools">>}

PipeCodes == {"p", "q"}

\* a bare reference, qualified references, a cross-package reference with an
\* undeclared alias, a local code that is not snake_case
RawRefs ==
    {RawRef(NoAlias, NoDomain, "p", TRUE),
     RawRef(NoAlias, <<"scoring">>, "p", TRUE),
     RawRef(NoAlias, <<"scoring">>, "q", TRUE),
     RawRef("unknown", <<"scoring">>, "p", TRUE),
     RawRef(NoAlias, <<"scoring">>, "P", FALSE)}

\* bundles that declare a main_pipe, bundles of an ordinary domain that hold a
\* reference, and a bundle of a reserved domain
Bundles ==
    {BundleMetadata(<<"scoring">>, mp, <<>>) : mp \in PipeCodes} \cup
    {BundleMetadata(<<"legal">>, "p", <<>>)} \cup
    {BundleMetadata(d, NoPipe, <<r>>) : d \in Domains \ {<<"native", "tools">>}, r \in RawRefs} \cup
    {BundleMetadata(<<"native", "tools">>, NoPipe, <<>>)}

BundleLists == UNION {[1..n -> Bundles] : n \in 0..MaxBundles}

ManifestWith(exports) == [present |-> TRUE, exports |-> exports, aliases |-> {"dep"}]

Manifests ==
    {ManifestWith(<<>>),
     ManifestWith(<<[domain_path |-> <<"scoring">>, pipes |-> {}]>>),
     ManifestWith(<<[domain_path |-> <<"scoring">>, pipes |-> {"p"}]>>)}

VisibilityCalls ==
    [fn : {"check_visibility"},
     manifest : {NoManifestGiven, ManifestWith(<<>>)}, bundle_metadatas : BundleLists,
     state : {"called"}, result : {<<>>}] \cup
    [fn : {"validate_all_pipe_references"},
     manifest : Manifests, bundle_metadatas : BundleLists,
     state : {"called"}, result : {<<>>}]

InitVisibility == InitCallFrom(VisibilityCalls)

CheckVisibility ==
    /\ pc = "call"
    /\ calc.fn = "check_visibility"
    /\ calc' = [calc EXCEPT !.state = "returned",
                            !.result = check_visibility(calc.manifest, calc.bundle_metadatas)]
    /\ pc' = "returned"
    /\ CallFrame

ValidateAllPipeReferences ==
    /\ pc = "call"
    /\ calc.fn = "validate_all_pipe_references"
    /\ calc' = [calc EXCEPT !.state = "returned",
                            !.result = validate_all_pipe_references(calc.manifest,
                                                                    calc.bundle_metadatas)]
    /\ pc' = "returned"
    /\ CallFrame

NextVisibility == CheckVisibility \/ ValidateAllPipeReferences

SpecVisibility == InitVisibility /\ [][NextVisibility]_vars

\* C17: without a manifest, check_visibility returns the empty list whatever the
\* bundles are
C17_NoManifestNoViolations ==
    (pc = "returned" /\ calc.fn = "check_visibility" /\ ~calc.manifest.present) =>
        calc.result = <<>>

\* no manifest, a bundle of domain native.tools: one reserved-domain violation
C17_Failure ==
    /\ pc = "returned"
    /\ calc.fn = "check_visibility"
    /\ ~calc.manifest.present
    /\ Len(calc.result) = 1
    /\ calc.result[1].kind = "reserved"
    /\ calc.result[1].source_domain = <<"native", "tools">>

(* validate_all_pipe_references against the export rule *)

ReportedAt(d1, raw) ==
    \E k \in 1..Len(calc.result) :
        /\ calc.result[k].kind = "pipe"
        /\ calc.result[k].pipe_ref = raw
        /\ calc.result[k].source_domain = d1

ExportsOf(d2) ==
    UNION {e.pipes : e \in {x \in Range(calc.manifest.exports) : x.domain_path = d2}}

\* some bundle of domain d2 declares the code as its main_pipe
MainPipeOfAny(d2, code) ==
    \E b \in Range(calc.bundle_metadatas) : b.domain = d2 /\ b.main_pipe = code

\* the first bundle of domain d2 that declares a main_pipe declares the code
MainPipeOfFirst(d2, code) ==
    \E i \in 1..Len(calc.bundle_metadatas) :
        /\ calc.bundle_metadatas[i].domain = d2
        /\ calc.bundle_metadatas[i].main_pipe = code
        /\ \A j \in 1..(i - 1) :
              calc.bundle_metadatas[j].domain = d2 =>
                  calc.bundle_metadatas[j].main_pipe = NoPipe

PipeCallReturned ==
    pc = "returned" /\ calc.fn = "validate_all_pipe_references" /\ calc.manifest.present

\* C18 as stated: a parseable reference in a bundle of domain d1 is reported iff
\* it is qualified with another domain d2, its code is not in exports[d2].pipes
\* and no bundle of domain d2 declares it as main_pipe
C18_ReportedIffNotExportedByAny ==
    PipeCallReturned =>
        \A b \in Range(calc.bundle_metadatas) : \A raw \in Range(b.pipe_references) :
            LET ref == parse_pipe_ref(raw)
            IN  ref.ok =>
                  (ReportedAt(b.domain, raw) <=>
                      /\ ref.domain_path # NoDomain
                      /\ ref.domain_path # b.domain
                      /\ ref.local_code \notin ExportsOf(ref.domain_path)
                      /\ ~MainPipeOfAny(ref.domain_path, ref.local_code))

\* C18: a parseable reference in a bundle of domain d1 is reported iff it is
\* qualified with another domain d2, its code is not in exports[d2].pipes and it
\* is not the main_pipe of the first bundle of domain d2 that declares one
C18_ReportedIffNotExported ==
    PipeCallReturned =>
        \A b \in Range(calc.bundle_metadatas) : \A raw \in Range(b.pipe_references) :
            LET ref == parse_pipe_ref(raw)
            IN  ref.ok =>
                  (ReportedAt(b.domain, raw) <=>
                      /\ ref.domain_path # NoDomain
                      /\ ref.domain_path # b.domain
                      /\ ref.local_code \notin ExportsOf(ref.domain_path)
                      /\ ~MainPipeOfFirst(ref.domain_path, ref.local_code))

\* two bundles of domain scoring declare main_pipe p and then q; a bundle of
\* domain legal refers to scoring.q, which is reported
C18_Witness ==
    /\ PipeCallReturned
    /\ Len(calc.bundle_metadatas) = 3
    /\ calc.bundle_metadatas[1] = BundleMetadata(<<"scoring">>, "p", <<>>)
    /\ calc.bundle_metadatas[2] = BundleMetadata(<<"scoring">>, "q", <<>>)
    /\ calc.bundle_metadatas[3].domain = <<"legal">>
    /\ ReportedAt(<<"legal">>, RawRef(NoAlias, <<"scoring">>, "q", TRUE))
    /\ Len(calc.result) = 1

----------------------------------------------------------------------------
(* mthds/package/lock_file.py: serialize_lock_file.  The packages mapping is  *)
(* the list of its items in insertion order; an address is the sequence of    *)
(* the code points of its characters, which is what sorted() compares.        *)

MaxEntries == 3

RECURSIVE StrLess(_, _)
\* Python's str < str: the first differing code point decides, a proper prefix is smaller
StrLess(a, b) ==
    IF b = <<>> THEN FALSE
    ELSE IF a = <<>> THEN TRUE
    ELSE IF Head(a) # Head(b) THEN Head(a) < Head(b)
    ELSE StrLess(Tail(a), Tail(b))

RECURSIVE InsertByAddress(_, _)
InsertByAddress(p, s) ==
    IF s = <<>> THEN <<p>>
    ELSE IF StrLess(p.address, Head(s).address) THEN <<p>> \o s
    ELSE <<Head(s)>> \o InsertByAddress(p, Tail(s))

RECURSIVE ItemsSortedByAddress(_)
\* line 174: for address in sorted(lock_file.packages)
ItemsSortedByAddress(packages) ==
    IF packages = <<>> THEN <<>>
    ELSE InsertByAddress(Head(packages), ItemsSortedByAddress(Tail(packages)))

\* lines 175-180: one table per address with its three keys
TomlTable(locked) ==
    <<<<"[", locked.address, "]">>,
      <<"version", "=", locked.version>>,
      <<"hash", "=", locked.hash>>,
      <<"source", "=", locked.source>>>>

RECURSIVE DumpTables(_)
DumpTables(items) ==
    IF items = <<>> THEN <<>> ELSE TomlTable(Head(items)) \o DumpTables(Tail(items))

\* the tables written in the order the mapping yields its items
SerializeInMappingOrder(packages) == DumpTables(packages)

\* lines 161-182: the document as the sequence of its lines
serialize_lock_file(packages) == DumpTables(ItemsSortedByAddress(packages))

\* "a", "a/b", "b" and "B" as code points
SerialAddresses == {<<97>>, <<97, 47, 98>>, <<98>>, <<66>>}

SerialEntries ==
    {LockedPackage(a, v, <<"sha256", a, v>>, <<"https://", a>>) :
        a \in SerialAddresses, v \in {V100, V120}}

\* mappings: no address twice
PackageMappings ==
    {s \in UNION {[1..n -> SerialEntries] : n \in 0..MaxEntries} :
        \A i, j \in 1..Len(s) : i # j => s[i].address # s[j].address}

\* two lock runs: the same entries, produced in two orders
SerializeCalls ==
    {[fn |-> "serialize_lock_file", packages |-> st[1], again |-> st[2],
      state |-> "called", result |-> <<>>, result_again |-> <<>>] :
        st \in {x \in PackageMappings \X PackageMappings : Range(x[1]) = Range(x[2])}}

InitSerialize == InitCallFrom(SerializeCalls)

SerializeLockFile ==
    /\ pc = "call"
    /\ calc' = [calc EXCEPT !.state = "returned",
                            !.result = serialize_lock_file(calc.packages),
                            !.result_again = serialize_lock_file(calc.again)]
    /\ pc' = "returned"
    /\ CallFrame

NextSerialize == SerializeLockFile

SpecSerialize == InitSerialize /\ [][NextSerialize]_vars

\* the addresses of the table headers, in the order they are written
HeaderAddresses(lines) ==
    LET headers == SelectSeq(lines, LAMBDA l : l[1] = "[")
    IN  [i \in 1..Len(headers) |-> headers[i][2]]

\* C19: the serialized lock has one table per entry, in ascending address order,
\* and two mappings with the same entries serialize to the same text
C19_SerializationDeterministic ==
    pc = "returned" =>
        LET written == HeaderAddresses(calc.result)
        IN  /\ Len(written) = Len(calc.packages)
            /\ Range(written) = {p.address : p \in Range(calc.packages)}
            /\ \A i, j \in 1..Len(written) : i < j => StrLess(written[i], written[j])
            /\ \A p \in Range(calc.packages) :
                  \E k \in 1..Len(calc.result) :
                      /\ calc.result[k] = <<"[", p.address, "]">>
                      /\ calc.result[k + 1] = <<"version", "=", p.version>>
                      /\ calc.result[k + 2] = <<"hash", "=", p.hash>>
                      /\ calc.result[k + 3] = <<"source", "=", p.source>>
            /\ calc.result = calc.result_again

\* three entries given in two different orders, neither of them ascending
C19_Witness ==
    /\ pc = "returned"
    /\ Len(calc.packages) = 3
    /\ calc.packages # calc.again
    /\ ItemsSortedByAddress(calc.packages) # calc.packages
    /\ ItemsSortedByAddress(calc.again) # calc.again
    /\ calc.result = calc.result_again
    /\ Len(calc.result) = 12

----------------------------------------------------------------------------
(* mthds/package/semver.py: minimum version selection on its own *)

MaxVersions == 3

SelectVersions == {V(0, 2, 0), V100, V120, V200}

SelectConstraints ==
    {Caret(V(0, 2, 0)), Caret(V100), Caret(V120), Exact(V120), Exact(V150),
     AtLeast(V100), AtLeast(V120)}

VersionLists == UNION {[1..n -> SelectVersions] : n \in 0..MaxVersions}

SelectCalls ==
    [fn : {"select_minimum_version"},
     available_versions : VersionLists,
     constraints : {<<c>> : c \in SelectConstraints},
     state : {"called"}, result : {NoVersion}] \cup
    [fn : {"select_minimum_version_for_multiple_constraints"},
     available_versions : VersionLists,
     constraints : UNION {[1..n -> SelectConstraints] : n \in 0..2},
     state : {"called"}, result : {NoVersion}]

InitSelect == InitCallFrom(SelectCalls)

SelectMinimumVersion ==
    /\ pc = "call"
    /\ calc.fn = "select_minimum_version"
    /\ calc' = [calc EXCEPT !.state = "returned",
                            !.result = select_minimum_version(calc.available_versions,
                                                              calc.constraints[1])]
    /\ pc' = "returned"
    /\ CallFrame

SelectMinimumVersionForMultipleConstraints ==
    /\ pc = "call"
    /\ calc.fn = "select_minimum_version_for_multiple_constraints"
    /\ calc' = [calc EXCEPT !.state = "returned",
                            !.result = select_minimum_version_for_multiple_constraints(
                                           calc.available_versions, calc.constraints)]
    /\ pc' = "returned"
    /\ CallFrame

NextSelect == SelectMinimumVersion \/ SelectMinimumVersionForMultipleConstraints

SpecSelect == InitSelect /\ [][NextSelect]_vars

\* the candidates that satisfy every constraint of the call
Satisfying ==
    {v \in Range(calc.available_versions) :
        \A c \in Range(calc.constraints) : version_satisfies(v, c)}

\* C20: the selection returns None when no candidate satisfies the constraints,
\* and otherwise a satisfying candidate that no satisfying candidate is below
C20_SelectsSmallestSatisfying ==
    pc = "returned" =>
        IF Satisfying = {}
        THEN calc.result = NoVersion
        ELSE /\ calc.result \in Satisfying
             /\ \A v \in Satisfying : VersionLeq(calc.result, v)

\* candidates given in descending order, two constraints, the smallest candidate
\* rejected by one of them and the largest not chosen
C20_Witness ==
    /\ pc = "returned"
    /\ calc.fn = "select_minimum_version_for_multiple_constraints"
    /\ calc.available_versions = <<V200, V120, V100>>
    /\ calc.constraints = <<Caret(V100), AtLeast(V120)>>
    /\ calc.result = V120

----------------------------------------------------------------------------
(* mthds/cli/commands/init_cmd.py and add_cmd.py: the manifest file.  Strings *)
(* that the code inspects character by character (addresses, aliases,         *)
(* version constraints) are sequences of one-character strings.               *)

LowerChars == {"a", "c", "d", "e", "g", "l", "m", "o", "p", "r", "s", "t", "u", "x", "y"}

UpperChars == {"M", "P"}

DigitChars == {"0", "1", "2"}

\* str.lower(), on the letters in use
lower(ch) == IF ch = "M" THEN "m" ELSE IF ch = "P" THEN "p" ELSE ch

AllIn(s, chars) == \A i \in 1..Len(s) : s[i] \in chars

\* ADDRESS_PATTERN: ^[a-zA-Z0-9._-]+\.[a-zA-Z0-9._-]+/[a-zA-Z0-9._/-]+$
HostChars == LowerChars \cup UpperChars \cup DigitChars \cup {".", "_", "-"}

is_valid_address(address) ==
    /\ \E k \in 1..Len(address) : address[k] = "/"
    /\ LET j == CHOOSE k \in 1..Len(address) :
                    address[k] = "/" /\ \A l \in 1..(k - 1) : address[l] # "/"
           host == SubSeq(address, 1, j - 1)
       IN  \* the host part has no slash, so it ends at the first one
           /\ AllIn(host, HostChars)
           /\ \E i \in 2..(Len(host) - 1) : host[i] = "."
           /\ j < Len(address)
           /\ AllIn(SubSeq(address, j + 1, Len(address)), HostChars \cup {"/"})

\* is_snake_case: ^[a-z][a-z0-9_]*$
is_snake_case(word) ==
    /\ Len(word) > 0
    /\ word[1] \in LowerChars
    /\ AllIn(word, LowerChars \cup DigitChars \cup {"_"})

\* 0|[1-9]\d*
IsNumber(s) ==
    /\ Len(s) > 0
    /\ AllIn(s, DigitChars)
    /\ Len(s) > 1 => s[1] # "0"

RECURSIVE SplitOn(_, _)
\* str.split(ch)
SplitOn(s, ch) ==
    IF \A i \in 1..Len(s) : s[i] # ch THEN <<s>>
    ELSE LET i == CHOOSE k \in 1..Len(s) : s[k] = ch /\ \A l \in 1..(k - 1) : s[l] # ch
         IN  <<SubSeq(s, 1, i - 1)>> \o SplitOn(SubSeq(s, i + 1, Len(s)), ch)

\* the operator of a single constraint: \^|~|>=?|<=?|==|!=
WithoutOperator(s) ==
    IF Len(s) >= 2 /\ s[2] = "=" /\ s[1] \in {">", "<", "=", "!"} THEN SubSeq(s, 3, Len(s))
    ELSE IF Len(s) >= 1 /\ s[1] \in {"^", "~", ">", "<"} THEN SubSeq(s, 2, Len(s))
    ELSE s

\* VERSION_CONSTRAINT_PATTERN for one constraint without a pre-release part:
\* * or [op]MAJOR[.MINOR[.PATCH]] where MINOR and PATCH may be *
is_valid_version_constraint(constraint) ==
    \/ constraint = <<"*">>
    \/ LET parts == SplitOn(WithoutOperator(constraint), ".")
       IN  /\ Len(parts) \in 1..3
           /\ IsNumber(parts[1])
           /\ \A i \in 2..Len(parts) : IsNumber(parts[i]) \/ parts[i] = <<"*">>

\* MAJOR.MINOR.PATCH of SEMVER_PATTERN
is_valid_semver(version) ==
    LET parts == SplitOn(version, ".")
    IN  Len(parts) = 3 /\ \A i \in 1..3 : IsNumber(parts[i])

RECURSIVE RStrip(_, _)
\* str.rstrip(ch)
RStrip(s, ch) ==
    IF Len(s) > 0 /\ s[Len(s)] = ch THEN RStrip(SubSeq(s, 1, Len(s) - 1), ch) ELSE s

RECURSIVE LStrip(_, _)
LStrip(s, ch) ==
    IF Len(s) > 0 /\ s[1] = ch THEN LStrip(Tail(s), ch) ELSE s

\* lines 15-33
derive_alias_from_address(address) ==
    LET segments  == SplitOn(RStrip(address, "/"), "/")
        last      == segments[Len(segments)]
        replaced  == [i \in 1..Len(last) |->
                        IF last[i] \in {"-", "."} THEN "_" ELSE lower(last[i])]
        kept      == LET Keep(ch) == ch \in LowerChars \cup DigitChars \cup {"_"}
                     IN  SelectSeq(replaced, Keep)
        alias     == LStrip(RStrip(kept, "_"), "_")
    IN  IF alias = <<>> THEN <<"d", "e", "p">> ELSE alias

ValidationError == "ValidationError"

ManifestError == "ManifestError"

\* the pydantic model of one dependency, or the error its validators raise
PackageDependency(address, version, alias, path) ==
    IF is_valid_address(address) /\ is_valid_version_constraint(version) /\ is_snake_case(alias)
    THEN [error |-> NoError,
          dep |-> [address |-> address, version |-> version, alias |-> alias, path |-> path]]
    ELSE [error |-> ValidationError]

\* validate_unique_dependency_aliases
UniqueAliases(deps) ==
    \A i, j \in 1..Len(deps) : i # j => deps[i].alias # deps[j].alias

\* the pydantic model of the manifest, or the error its validators raise
MthdsPackageManifest(address, version, description, dependencies) ==
    IF is_valid_address(address) /\ is_valid_semver(version) /\ description # ""
       /\ UniqueAliases(dependencies)
    THEN [error |-> NoError,
          manifest |-> [address |-> address, version |-> version, description |-> description,
                        dependencies |-> dependencies]]
    ELSE [error |-> ValidationError]

\* the inline table of one dependency: path is written only when set
InlineTable(dep) ==
    IF dep.path = NoPath
    THEN [address |-> dep.address, version |-> dep.version]
    ELSE [address |-> dep.address, version |-> dep.version, path |-> dep.path]

\* lines 151-207: a [package] table and, when there are dependencies, a
\* [dependencies] table with one key per alias, in list order
serialize_manifest_to_toml(m) ==
    [exists |-> TRUE,
     package |-> [address |-> m.address, version |-> m.version, description |-> m.description],
     dependencies |-> [i \in 1..Len(m.dependencies) |->
                          [key |-> m.dependencies[i].alias,
                           table |-> InlineTable(m.dependencies[i])]]]

\* lines 55-148: every dependency table is validated with its key as alias, then
\* the manifest as a whole
parse_methods_toml(content) ==
    LET entries == content.dependencies
        parsed  == [i \in 1..Len(entries) |->
                      PackageDependency(entries[i].table.address, entries[i].table.version,
                                        entries[i].key,
                                        IF "path" \in DOMAIN entries[i].table
                                        THEN entries[i].table.path ELSE NoPath)]
    IN  IF \E i \in 1..Len(entries) : parsed[i].error # NoError
        THEN [error |-> ManifestError]
        ELSE LET built == MthdsPackageManifest(content.package.address, content.package.version,
                                               content.package.description,
                                               [i \in 1..Len(entries) |-> parsed[i].dep])
             IN  IF built.error # NoError THEN [error |-> ManifestError] ELSE built

\* "example.com/yourorg/"
ExamplePrefix ==
    <<"e", "x", "a", "m", "p", "l", "e", ".", "c", "o", "m", "/",
      "y", "o", "u", "r", "o", "r", "g", "/">>

\* init_cmd.py lines 11-40; an invalid placeholder address raises out of the command
do_init(file, dir_name, force) ==
    IF file.exists /\ ~force THEN [file |-> file, exit |-> ExitOne]
    ELSE LET name  == [i \in 1..Len(dir_name) |->
                          IF dir_name[i] \in {"-", " "} THEN "_" ELSE lower(dir_name[i])]
             built == MthdsPackageManifest(ExamplePrefix \o name, <<"0", ".", "1", ".", "0">>,
                                           "MTHDS package", <<>>)
         IN  IF built.error # NoError THEN [file |-> file, exit |-> ExitCrash]
             ELSE [file |-> serialize_manifest_to_toml(built.manifest), exit |-> ExitOk]

NoAliasGiven == <<"<", "n", "o", "n", "e", ">">>

\* the same command without the check of lines 75-79
AddWithoutAliasCheck(file, address, alias, version, path) ==
    LET parsed == parse_methods_toml(file)
        name   == IF alias = NoAliasGiven THEN derive_alias_from_address(address) ELSE alias
        dep    == PackageDependency(address, version, name, path)
    IN  IF ~file.exists \/ parsed.error # NoError \/ dep.error # NoError
        THEN [file |-> file, exit |-> ExitOne]
        ELSE [file |-> serialize_manifest_to_toml(
                          [parsed.manifest EXCEPT !.dependencies = Append(@, dep.dep)]),
              exit |-> ExitOk]

\* add_cmd.py lines 36-99
do_add(file, address, alias, version, path) ==
    IF ~file.exists THEN [file |-> file, exit |-> ExitOne]
    ELSE LET parsed == parse_methods_toml(file)
         IN  IF parsed.error # NoError THEN [file |-> file, exit |-> ExitOne]
             ELSE LET name == IF alias = NoAliasGiven
                              THEN derive_alias_from_address(address) ELSE alias
                      existing_aliases == {d.alias : d \in Range(parsed.manifest.dependencies)}
                  IN  IF name \in existing_aliases THEN [file |-> file, exit |-> ExitOne]
                      ELSE LET dep == PackageDependency(address, version, name, path)
                           IN  IF dep.error # NoError THEN [file |-> file, exit |-> ExitOne]
                               ELSE [file |-> serialize_manifest_to_toml(
                                                 [parsed.manifest EXCEPT
                                                     !.dependencies = Append(@, dep.dep)]),
                                     exit |-> ExitOk]

(* The commands that are run *)

\* how many dependencies a manifest is allowed to collect
MaxDependencies == 2

GithubOrg == <<"g", ".", "c", "/", "o", "/">>

AddAddresses ==
    {GithubOrg \o <<"m", "y", "-", "p">>,      \* alias my_p
     GithubOrg \o <<"m", "y", ".", "p">>,      \* alias my_p as well
     GithubOrg \o <<"1", "p">>,                \* alias 1p, not snake_case
     GithubOrg \o <<"P", "/">>,                \* alias p
     GithubOrg \o <<"-">>,                     \* alias dep
     <<"o", "/", "p">>}                        \* no host name

AddAliases == {NoAliasGiven, <<"m", "y", "_", "p">>, <<"M", "y">>}

DirNames == {<<"M", "y", " ", "P">>, <<"m", "y", "!">>}

AddCalls ==
    {[fn |-> "do_add", address |-> a, alias |-> al,
      version |-> <<"^", "1", ".", "0", ".", "0">>, path |-> NoPath] :
        a \in AddAddresses, al \in AddAliases}
    \cup
    {[fn |-> "do_add", address |-> a, alias |-> NoAliasGiven,
      version |-> <<"l", "a", "t", "e", "s", "t">>, path |-> NoPath] : a \in AddAddresses}
    \cup
    {[fn |-> "do_add", address |-> a, alias |-> NoAliasGiven,
      version |-> <<"0", ".", "1", ".", "0">>, path |-> "../local"] : a \in AddAddresses}

InitManifest ==
    /\ registry = Registry(<<V100>>, "tag", <<>>, <<>>, <<>>, <<V100>>, <<>>)
    /\ manifest = Manifest("A", V100, <<>>)
    /\ cache = EmptyCache
    /\ pc = "cli"
    /\ resolved = <<>>
    /\ error = NoError
    /\ vcs_log = <<>>
    /\ lock_file = <<>>
    /\ verify_result = NoError
    /\ edits = 0
    /\ install = NotInstalling
    /\ store = NotStoring
    /\ calc = NoCall
    /\ methods_toml = NoFile
    /\ methods_lock = NoFile
    /\ exit_code = "none"
    /\ environ = <<>>
    /\ credentials_file = NoFile
    /\ legacy_files = NoFile
    /\ migration_done = FALSE
    /\ walk = NotWalking

ManifestFrame ==
    UNCHANGED <<registry, manifest, cache, pc, resolved, error, vcs_log, lock_file,
                verify_result, edits, install, store, methods_lock, environ,
                credentials_file, legacy_files, migration_done, walk>>

DoInit ==
    /\ pc = "cli"
    /\ \E dir_name \in DirNames, force \in BOOLEAN :
          LET out == do_init(methods_toml, dir_name, force)
          IN  /\ methods_toml' = out.file
              /\ exit_code' = out.exit
              /\ calc' = [fn |-> "do_init", dir_name |-> dir_name, force |-> force,
                          file_before |-> methods_toml]
    /\ ManifestFrame

DoAdd ==
    /\ pc = "cli"
    /\ methods_toml.exists => Len(methods_toml.dependencies) < MaxDependencies
    /\ \E call \in AddCalls :
          LET out == do_add(methods_toml, call.address, call.alias, call.version, call.path)
          IN  /\ methods_toml' = out.file
              /\ exit_code' = out.exit
              /\ calc' = [fn |-> "do_add", address |-> call.address, alias |-> call.alias,
                          version |-> call.version, path |-> call.path,
                          file_before |-> methods_toml]
    /\ ManifestFrame

NextManifest == DoInit \/ DoAdd

SpecManifest == InitManifest /\ [][NextManifest]_vars

\* the alias an add asks for
RequestedAlias(call) ==
    IF call.alias = NoAliasGiven THEN derive_alias_from_address(call.address) ELSE call.alias

\* the keys of the [dependencies] table of the file
FileAliases(file) ==
    IF file.exists THEN {file.dependencies[i].key : i \in 1..Len(file.dependencies)} ELSE {}

\* C21: the manifest file, once written by init and whatever adds follow,
\* parses as a valid manifest and no two keys of its [dependencies] table are
\* the same alias; an add whose alias is already in the file, or whose address
\* or version constraint is invalid, exits with status 1 and leaves the file as
\* it was.
C21_ManifestStaysValid ==
    /\ methods_toml.exists =>
          /\ parse_methods_toml(methods_toml).error = NoError
          /\ \A i, j \in 1..Len(methods_toml.dependencies) :
                i # j => methods_toml.dependencies[i].key # methods_toml.dependencies[j].key
    /\ (/\ calc.fn = "do_add"
        /\ \/ RequestedAlias(calc) \in FileAliases(calc.file_before)
           \/ ~is_valid_address(calc.address)
           \/ ~is_valid_version_constraint(calc.version))
       => exit_code = ExitOne /\ methods_toml = calc.file_before

\* my-p and my.p both derive the alias my_p: the second add is refused
C21_Witness ==
    /\ calc.fn = "do_add"
    /\ calc.alias = NoAliasGiven
    /\ calc.address = GithubOrg \o <<"m", "y", ".", "p">>
    /\ calc.file_before.exists
    /\ Len(calc.file_before.dependencies) = 1
    /\ calc.file_before.dependencies[1].table.address = GithubOrg \o <<"m", "y", "-", "p">>
    /\ exit_code = ExitOne
    /\ methods_toml = calc.file_before

----------------------------------------------------------------------------
(* mthds/config/credentials.py: the credentials store.  A value is a sequence *)
(* of tokens, " " being white space, so that str.strip() is computed.         *)

CredentialKeys == {"runner", "api_url", "api_key", "telemetry"}

\* _CREDENTIAL_KEYS, lines 48-53
CREDENTIAL_KEYS ==
    [runner |-> "MTHDS_RUNNER", api_url |-> "PIPELEX_API_URL",
     api_key |-> "PIPELEX_API_KEY", telemetry |-> "DISABLE_TELEMETRY"]

EnvNames == {CREDENTIAL_KEYS[k] : k \in CredentialKeys}

\* _DEFAULTS, lines 56-61
DEFAULTS ==
    [runner |-> <<"api">>, api_url |-> <<"https://api.pipelex.com">>,
     api_key |-> <<>>, telemetry |-> <<"0">>]

\* os.environ.get(name) is None
Unset == <<"<", "unset", ">">>

NoEnviron == [name \in EnvNames |-> Unset]

strip(value) == LStrip(RStrip(value, " "), " ")

\* dicts keep insertion order: a sequence of entries with distinct keys
DictHas(d, key) == \E i \in 1..Len(d) : d[i].key = key

DictGet(d, key) == d[CHOOSE i \in 1..Len(d) : d[i].key = key].value

DictSet(d, key, value) ==
    IF DictHas(d, key)
    THEN [i \in 1..Len(d) |-> IF d[i].key = key THEN [key |-> key, value |-> value] ELSE d[i]]
    ELSE Append(d, [key |-> key, value |-> value])

\* a line KEY=VALUE; a comment or blank line
EntryLine(key, value) == [kind |-> "entry", key |-> key, value |-> value]

CommentLine == [kind |-> "comment", key |-> "", value |-> <<>>]

RECURSIVE ParseLines(_, _)
ParseLines(lines, result) ==
    IF lines = <<>> THEN result
    ELSE ParseLines(Tail(lines),
                    IF Head(lines).kind = "entry"
                    THEN DictSet(result, Head(lines).key, strip(Head(lines).value))
                    ELSE result)

\* lines 82-95
parse_dotenv(lines) == ParseLines(lines, <<>>)

\* lines 98-103
serialize_dotenv(entries) ==
    [i \in 1..Len(entries) |-> EntryLine(entries[i].key, entries[i].value)]

\* the credentials file on disk
CredentialsFile(lines, mode, written_by) ==
    [exists |-> TRUE, lines |-> lines, mode |-> mode, written_by |-> written_by]

\* ~/.mthds/config.json and ~/.mthds/.env.local
NoConfig == [kind |-> "absent"]

CorruptConfig == [kind |-> "corrupt"]

JsonConfig(runner, apiKey, telemetry) ==
    [kind |-> "json", runner |-> runner, apiKey |-> apiKey, telemetry |-> telemetry]

NoEnvLocal == [exists |-> FALSE, lines |-> <<>>]

NoLegacy == [config |-> NoConfig, env_local |-> NoEnvLocal]

\* the store as the functions see it
CredentialStore(file, legacy, done) == [file |-> file, legacy |-> legacy, done |-> done]

\* lines 145-162: the string fields and the boolean telemetry flag of config.json
MigratedFromConfig(config) ==
    IF config.kind # "json" THEN <<>>
    ELSE LET with_runner == IF config.runner # Unset
                            THEN DictSet(<<>>, "MTHDS_RUNNER", config.runner) ELSE <<>>
             with_key    == IF config.apiKey # Unset
                            THEN DictSet(with_runner, "PIPELEX_API_KEY", config.apiKey)
                            ELSE with_runner
         IN  IF config.telemetry = "true" THEN DictSet(with_key, "DISABLE_TELEMETRY", <<"0">>)
             ELSE IF config.telemetry = "false"
                  THEN DictSet(with_key, "DISABLE_TELEMETRY", <<"1">>)
                  ELSE with_key

\* lines 164-172
MigratedFromEnvLocal(env_local, migrated) ==
    IF env_local.exists /\ DictHas(parse_dotenv(env_local.lines), "DISABLE_TELEMETRY")
    THEN DictSet(migrated, "DISABLE_TELEMETRY",
                 DictGet(parse_dotenv(env_local.lines), "DISABLE_TELEMETRY"))
    ELSE migrated

\* lines 132-184; created_mode is what the umask gives a new file
migrate_if_needed(st, created_mode) ==
    IF st.done THEN st
    ELSE IF st.file.exists THEN [st EXCEPT !.done = TRUE]
    ELSE LET migrated == MigratedFromEnvLocal(st.legacy.env_local,
                                              MigratedFromConfig(st.legacy.config))
             did_migrate == st.legacy.config.kind = "json" \/ st.legacy.env_local.exists
         IN  IF did_migrate
             THEN CredentialStore(CredentialsFile(serialize_dotenv(migrated), created_mode,
                                                  "migration"),
                                  NoLegacy, TRUE)
             ELSE [st EXCEPT !.done = TRUE]

\* lines 109-117
read_credentials_file(st, created_mode) ==
    LET after == migrate_if_needed(st, created_mode)
    IN  [entries |-> IF after.file.exists THEN parse_dotenv(after.file.lines) ELSE <<>>,
         store |-> after]

\* lines 120-124: write_text keeps the mode of an existing file, chmod sets it
write_credentials_file(st, entries) ==
    [st EXCEPT !.file = CredentialsFile(serialize_dotenv(entries), "0600", "set")]

\* the same merge with the two loops of lines 200-209 exchanged
LoadFileOverEnv(env, st, created_mode) ==
    LET read == read_credentials_file(st, created_mode)
    IN  [result |-> [k \in CredentialKeys |->
                        IF DictHas(read.entries, CREDENTIAL_KEYS[k])
                        THEN DictGet(read.entries, CREDENTIAL_KEYS[k])
                        ELSE IF env[CREDENTIAL_KEYS[k]] # Unset THEN env[CREDENTIAL_KEYS[k]]
                        ELSE DEFAULTS[k]],
         store |-> read.store]

\* lines 190-211
load_credentials(env, st, created_mode) ==
    LET read == read_credentials_file(st, created_mode)
        merged == [k \in CredentialKeys |->
                      IF DictHas(read.entries, CREDENTIAL_KEYS[k])
                      THEN DictGet(read.entries, CREDENTIAL_KEYS[k])
                      ELSE DEFAULTS[k]]
    IN  [result |-> [k \in CredentialKeys |->
                        IF env[CREDENTIAL_KEYS[k]] # Unset THEN env[CREDENTIAL_KEYS[k]]
                        ELSE merged[k]],
         store |-> read.store]

CredentialEntry(key, value, source) == [key |-> key, value |-> value, source |-> source]

\* lines 219-240: the file is read only when the environment has no value
get_credential_value(env, st, created_mode, key) ==
    IF env[CREDENTIAL_KEYS[key]] # Unset
    THEN [result |-> CredentialEntry(key, env[CREDENTIAL_KEYS[key]], "env"), store |-> st]
    ELSE LET read == read_credentials_file(st, created_mode)
         IN  [result |-> IF DictHas(read.entries, CREDENTIAL_KEYS[key])
                         THEN CredentialEntry(key, DictGet(read.entries, CREDENTIAL_KEYS[key]),
                                              "file")
                         ELSE CredentialEntry(key, DEFAULTS[key], "default"),
              store |-> read.store]

\* lines 243-253
set_credential_value(st, created_mode, key, value) ==
    LET read == read_credentials_file(st, created_mode)
    IN  write_credentials_file(read.store, DictSet(read.entries, CREDENTIAL_KEYS[key], value))

(* The process and what surrounds it *)

\* how many times the credentials are set
MaxSets == 2

\* 0666 masked by a umask of 022 or of 077
CreatedModes == {"0644", "0600"}

EnvValues == {<<"from-env">>, <<>>}

SetValues == {<<"pipelex">>, <<" ", "secret", " ">>}

\* the names the environment changes
ChangedEnvNames == {"MTHDS_RUNNER", "PIPELEX_API_KEY"}

\* the keys that are set
SetKeys == {"runner", "api_key", "telemetry"}

InitialCredentialsFiles ==
    {NoFile,
     CredentialsFile(<<CommentLine, EntryLine("MTHDS_RUNNER", <<" ", "pipelex", " ">>),
                       EntryLine("MTHDS_RUNNER", <<"api">>)>>, "0644", "user")}

InitialLegacy ==
    {NoLegacy,
     [config |-> JsonConfig(<<"pipelex">>, <<"legacy-key">>, "false"), env_local |-> NoEnvLocal],
     [config |-> CorruptConfig, env_local |-> NoEnvLocal],
     [config |-> JsonConfig(Unset, <<"legacy-key">>, "true"),
      env_local |-> [exists |-> TRUE,
                     lines |-> <<EntryLine("DISABLE_TELEMETRY", <<"1">>)>>]]}

InitCredentials ==
    /\ registry = Registry(<<V100>>, "tag", <<>>, <<>>, <<>>, <<V100>>, <<>>)
    /\ manifest = Manifest("A", V100, <<>>)
    /\ cache = EmptyCache
    /\ pc = "process"
    /\ resolved = <<>>
    /\ error = NoError
    /\ vcs_log = <<>>
    /\ lock_file = <<>>
    /\ verify_result = NoError
    /\ edits = 0
    /\ install = NotInstalling
    /\ store = NotStoring
    /\ calc = NoCall
    /\ methods_toml = NoFile
    /\ methods_lock = NoFile
    /\ exit_code = "none"
    /\ environ = NoEnviron
    /\ credentials_file \in InitialCredentialsFiles
    /\ legacy_files \in InitialLegacy
    /\ migration_done = FALSE
    /\ walk = NotWalking

CredentialsFrame ==
    UNCHANGED <<registry, manifest, cache, pc, resolved, error, vcs_log, lock_file,
                verify_result, install, store, methods_toml, methods_lock, exit_code,
                walk>>

Store == CredentialStore(credentials_file, legacy_files, migration_done)

\* the store after a call, and what the call was
Returned(after, call) ==
    /\ credentials_file' = after.file
    /\ legacy_files' = after.legacy
    /\ migration_done' = after.done
    /\ calc' = call

\* os.environ[name] = value, del os.environ[name]
ChangeEnviron ==
    /\ \E name \in ChangedEnvNames, value \in EnvValues \cup {Unset} :
          /\ environ[name] # value
          /\ environ' = [environ EXCEPT ![name] = value]
    /\ calc' = [fn |-> "environ"]
    /\ UNCHANGED <<credentials_file, legacy_files, migration_done, edits>>
    /\ CredentialsFrame

LoadCredentials ==
    /\ \E created_mode \in CreatedModes :
          LET out == load_credentials(environ, Store, created_mode)
          IN  Returned(out.store, [fn |-> "load_credentials", result |-> out.result,
                                   before |-> Store])
    /\ UNCHANGED <<environ, edits>>
    /\ CredentialsFrame

GetCredentialValue ==
    /\ \E created_mode \in CreatedModes, key \in CredentialKeys :
          LET out == get_credential_value(environ, Store, created_mode, key)
          IN  Returned(out.store, [fn |-> "get_credential_value", key |-> key,
                                   result |-> out.result, before |-> Store])
    /\ UNCHANGED <<environ, edits>>
    /\ CredentialsFrame

SetCredentialValue ==
    /\ edits < MaxSets
    /\ \E created_mode \in CreatedModes, key \in SetKeys, value \in SetValues :
          Returned(set_credential_value(Store, created_mode, key, value),
                   [fn |-> "set_credential_value", key |-> key, value |-> value,
                    before |-> Store])
    /\ edits' = edits + 1
    /\ UNCHANGED environ
    /\ CredentialsFrame

NextCredentials ==
    ChangeEnviron \/ LoadCredentials \/ GetCredentialValue \/ SetCredentialValue

SpecCredentials == InitCredentials /\ [][NextCredentials]_vars

\* what the file holds for a key, as a reader of the file sees it
FileHas(key) ==
    /\ credentials_file.exists
    /\ DictHas(parse_dotenv(credentials_file.lines), CREDENTIAL_KEYS[key])

FileValue(key) == DictGet(parse_dotenv(credentials_file.lines), CREDENTIAL_KEYS[key])

\* environment, then file, then default
ResolvedValue(key) ==
    IF environ[CREDENTIAL_KEYS[key]] # Unset THEN environ[CREDENTIAL_KEYS[key]]
    ELSE IF FileHas(key) THEN FileValue(key)
    ELSE DEFAULTS[key]

ResolvedSource(key) ==
    IF environ[CREDENTIAL_KEYS[key]] # Unset THEN "env"
    ELSE IF FileHas(key) THEN "file"
    ELSE "default"

\* C22: when load_credentials or get_credential_value has returned, the value
\* of each key is the environment variable's when it is set (the empty string
\* included), else the one the credentials file holds after the call, else the
\* default, and get_credential_value names that layer as its source.
C22_EnvThenFileThenDefault ==
    /\ calc.fn = "load_credentials" =>
          \A key \in CredentialKeys : calc.result[key] = ResolvedValue(key)
    /\ calc.fn = "get_credential_value" =>
          /\ calc.result.value = ResolvedValue(calc.key)
          /\ calc.result.source = ResolvedSource(calc.key)

\* the file says api, the environment says from-env, api_key comes from nowhere
C22_Witness ==
    /\ calc.fn = "load_credentials"
    /\ environ["MTHDS_RUNNER"] = <<"from-env">>
    /\ FileHas("runner") /\ FileValue("runner") # <<"from-env">>
    /\ calc.result["runner"] = <<"from-env">>
    /\ calc.result["telemetry"] = <<"1">>
    /\ calc.result["api_url"] = DEFAULTS["api_url"]

\* a legacy file is there
LegacyExists(legacy) == legacy.config.kind # "absent" \/ legacy.env_local.exists

\* the entries the legacy files hold, in the new format
LegacyEntries(legacy) == MigratedFromEnvLocal(legacy.env_local, MigratedFromConfig(legacy.config))

\* the first read of the process: the step that sets _migration_done
FirstRead == ~migration_done /\ migration_done'

\* C23: the migration writes the credentials file at most once per process,
\* in the step of the first read and never after the flag is set; when a legacy
\* config.json or .env.local exists at that first read, each of their values is
\* in the credentials file afterwards (unless that very call sets the key) and
\* both legacy files are gone.
C23_MigratesOnceOnFirstRead ==
    [][/\ migration_done => migration_done' /\ legacy_files' = legacy_files
       /\ (FirstRead /\ LegacyExists(legacy_files)) =>
             /\ legacy_files' = NoLegacy
             /\ credentials_file'.exists
             /\ \A i \in 1..Len(LegacyEntries(legacy_files)) :
                   LET entry == LegacyEntries(legacy_files)[i]
                       after == parse_dotenv(credentials_file'.lines)
                   IN  /\ DictHas(after, entry.key)
                       /\ \/ DictGet(after, entry.key) = entry.value
                          \/ /\ calc'.fn = "set_credential_value"
                             /\ CREDENTIAL_KEYS[calc'.key] = entry.key]_vars

\* the first read found a credentials file and config.json: the flag is set,
\* config.json is still there and its API key is not in the credentials file
C23_Failure ==
    /\ migration_done
    /\ calc.fn = "load_credentials"
    /\ ~calc.before.done
    /\ legacy_files.config.kind = "json"
    /\ legacy_files.config.apiKey = <<"legacy-key">>
    /\ credentials_file.exists
    /\ ~DictHas(parse_dotenv(credentials_file.lines), "PIPELEX_API_KEY")
    /\ calc.result["api_key"] = DEFAULTS["api_key"]

\* C24: a credentials file that this program wrote, by set_credential_value or
\* by the migration, has mode 0600.
C24_WrittenOwnerOnly ==
    (credentials_file.exists /\ credentials_file.written_by # "user")
        => credentials_file.mode = "0600"

\* under a umask of 022 the migration leaves the migrated API key readable by
\* group and others
C24_Failure ==
    /\ calc.fn = "get_credential_value"
    /\ calc.key = "api_key"
    /\ calc.result.value = <<"legacy-key">>
    /\ calc.result.source = "file"
    /\ ~calc.before.file.exists
    /\ credentials_file.exists
    /\ credentials_file.written_by = "migration"
    /\ credentials_file.mode = "0644"

----------------------------------------------------------------------------
(* Minimal version selection over the final graph *)

\* the constraints the root and the resolved versions place on an address
ConstraintsOn(a) ==
    {d.version : d \in {x \in UNION {RemoteDepsOf(m) : m \in DeclaringManifests} :
                           x.address = a}}

SatisfiesAll(v, constraints) == \A c \in constraints : version_satisfies(v, c)

\* C25: after a successful resolve, the version of every remote entry is the
\* smallest tag of its address that satisfies every constraint the root
\* manifest and the manifests of the resolved versions place on the address;
\* constraints of versions that were replaced play no part.
C25_MinimalResolution ==
    pc = "resolved" =>
        \A e \in RemoteEntries :
            /\ SatisfiesAll(ResolvedVersion(e), ConstraintsOn(e.address))
            /\ \A v \in TagsOf(e.address) :
                  SatisfiesAll(v, ConstraintsOn(e.address)) =>
                      VersionLeq(ResolvedVersion(e), v)


\* C asks for B and then for a D that replaces the D the root asked for
DepsCMinimal ==
    {<<>>, <<Remote("b", "B", V100)>>,
     <<Remote("b", "B", V100), Remote("d", "D", V120)>>}

\* repositories whose manifests state the version of their tag
InitMinimal ==
    /\ \E tagsB \in TagListsB, depsC \in DepsCMinimal, tagsD \in TagListsD, dLow \in DepsDLow :
            registry = Registry(tagsB, "tag", <<>>, <<>>, depsC, tagsD, dLow)
    /\ \E deps \in RootDepLists : manifest = Manifest("A", V100, deps)
    /\ cache = EmptyCache
    /\ pc = "start"
    /\ resolved = <<>>
    /\ error = NoError
    /\ vcs_log = <<>>
    /\ lock_file = <<>>
    /\ verify_result = NoError
    /\ edits = 0
    /\ install = NotInstalling
    /\ store = NotStoring
    /\ calc = NoCall
    /\ InitCli

NextMinimal == ResolveAll

SpecMinimal == InitMinimal /\ [][NextMinimal]_vars

\* D 1.0.0 raised B to 1.2.0 and was then replaced by D 1.2.0, which asks
\* nothing of B: B stays at 1.2.0 although only ^1.0.0 is left and 1.0.0 is a tag
C25_Failure ==
    /\ pc = "resolved"
    /\ \E e \in EntriesFor("D") : ResolvedVersion(e) = V120
    /\ \E e \in EntriesFor("B") : ResolvedVersion(e) = V120
    /\ ConstraintsOn("B") = {Caret(V100)}
    /\ V100 \in TagsOf("B")

----------------------------------------------------------------------------
(* Tag listings *)

Listings(a) == {i \in 1..Len(vcs_log) : vcs_log[i].op = "ls-remote" /\ vcs_log[i].address = a}

\* C26: during one resolve the tags of an address are listed from the remote at
\* most once, whatever selections and re-resolutions follow for that address.
C26_TagsListedOnce == \A a \in Addrs : Cardinality(Listings(a)) <= 1

\* the diamond resolved B twice and listed its tags each time
C26_Failure ==
    /\ DiamondScenario
    /\ pc = "resolved"
    /\ Cardinality(Listings("B")) = 2
    /\ \E e \in EntriesFor("B") : ResolvedVersion(e) = V120

----------------------------------------------------------------------------
(* _resolve_transitive_tree call by call: every call of the function is a     *)
(* frame holding its deps, the position of its loop and the address its       *)
(* caller discards from the resolution stack when it comes back.              *)

NoAddress == ""

WalkFrame(deps, discard) == [deps |-> deps, i |-> 1, discard |-> discard]

\* the sub-dependencies a resolved package sends the walk into
RemoteSubDeps(resolved_dep) ==
    IF resolved_dep.manifest.present THEN RemoteOnly(resolved_dep.manifest.dependencies)
    ELSE <<>>

Visited(st, sub_deps) == [st |-> st, sub_deps |-> sub_deps]

\* the resolved package is stored in resolved_map; with sub-dependencies the
\* address is on the stack for the call that follows, without there is no call
\* and nothing stays on the stack
Placed(got, address) ==
    LET placed == [got EXCEPT !.resolved_map = MapSet(@, address, got.ret)]
    IN  IF RemoteSubDeps(got.ret) = <<>>
        THEN Visited(DiscardFromStack(placed, address), <<>>)
        ELSE Visited([placed EXCEPT !.resolution_stack = @ \cup {address}],
                     RemoteSubDeps(got.ret))

\* lines 431-531, one iteration of the loop up to its recursive call
VisitDep(reg, dep, st) ==
    IF dep.path # NoPath THEN Visited(st, <<>>)
    ELSE IF dep.address \in st.resolution_stack
    THEN Visited([st EXCEPT !.error = CycleError], <<>>)
    ELSE
      LET tracked == [st EXCEPT !.constraints_by_address[dep.address] = Append(@, dep.version)]
      IN  IF MapHas(tracked.resolved_map, dep.address)
          THEN
            LET existing == MapGet(tracked.resolved_map, dep.address)
            IN  IF existing.manifest.present
                   /\ version_satisfies(existing.manifest.version, dep.version)
                THEN Visited(tracked, <<>>)
                ELSE
                  LET pruned == remove_stale_subdep_constraints(existing.manifest, tracked)
                  IN  IF pruned.constraints_by_address[dep.address] = <<>>
                      THEN Visited([pruned EXCEPT !.error = KeyErrorCrash], <<>>)
                      ELSE
                        LET re == resolve_with_multiple_constraints(reg, pruned, dep.address,
                                      dep.alias, pruned.constraints_by_address[dep.address])
                        IN  IF re.error # NoError THEN Visited(re, <<>>)
                            ELSE Placed(re, dep.address)
          ELSE
            LET pushed == [tracked EXCEPT !.resolution_stack = @ \cup {dep.address}]
                got == IF Len(pushed.constraints_by_address[dep.address]) > 1
                       THEN resolve_with_multiple_constraints(reg, pushed, dep.address, dep.alias,
                                pushed.constraints_by_address[dep.address])
                       ELSE resolve_remote_dependency(reg, pushed, dep)
            IN  IF got.error # NoError
                THEN Visited(DiscardFromStack(got, dep.address), <<>>)
                ELSE Placed(got, dep.address)

\* the call never comes back
KeepFrame(frames) == frames

\* the call comes back to its caller
PopFrame(frames) == SubSeq(frames, 1, Len(frames) - 1)

\* steps counts the iterations and returns made so far
Walking(st, frames, locals, steps) ==
    [status |-> IF frames # <<>> THEN "running"
                ELSE IF st.error # NoError THEN "raised"
                ELSE "returned",
     st |-> st, frames |-> frames, locals |-> locals, steps |-> steps]

\* the dependencies declared in the root manifest and under every tag
DeclaredCount ==
    Len(manifest.dependencies)
    + Len(DeclaredDepsAt("B", V100)) + Len(DeclaredDepsAt("B", V150))
    + Len(DeclaredDepsAt("C", V100))
    + Len(DeclaredDepsAt("D", V100)) + Len(DeclaredDepsAt("D", V120))

\* the steps a walk is given before it counts as not ending
StepLimit == (DeclaredCount + 1) * (DeclaredCount + 1)

WalkFrameVars ==
    UNCHANGED <<registry, manifest, cache, resolved, error, vcs_log, lock_file, verify_result,
                edits, install, store, calc, methods_toml, methods_lock, exit_code, environ,
                credentials_file, legacy_files, migration_done>>

\* resolve_all_dependencies, lines 560-591: the local dependencies, then the
\* first call of the walk with the root's remote dependencies
WalkBegin ==
    /\ pc = "start"
    /\ LET locals == ResolveLocals(manifest.dependencies,
                                   [error |-> NoError, local_resolved |-> <<>>])
           remote_deps == RemoteDepsOfRoot(manifest, locals.local_resolved)
           fresh == FreshResolverState(cache)
       IN  walk' = IF locals.error # NoError
                   THEN Walking([fresh EXCEPT !.error = locals.error], <<>>, <<>>, 0)
                   ELSE Walking(fresh,
                                IF remote_deps = <<>> THEN <<>>
                                ELSE <<WalkFrame(remote_deps, NoAddress)>>,
                                locals.local_resolved, 0)
    /\ pc' = "walking"
    /\ WalkFrameVars

\* the loop of the innermost call handles its next dependency
WalkVisit ==
    /\ walk.status = "running"
    /\ walk.steps <= StepLimit
    /\ walk.st.error = NoError
    /\ LET top == walk.frames[Len(walk.frames)]
       IN  /\ top.i <= Len(top.deps)
           /\ LET out == VisitDep(registry, top.deps[top.i], walk.st)
                  advanced == [walk.frames EXCEPT ![Len(walk.frames)].i = top.i + 1]
              IN  walk' = Walking(out.st,
                                  IF out.sub_deps = <<>> THEN advanced
                                  ELSE Append(advanced,
                                              WalkFrame(out.sub_deps, top.deps[top.i].address)),
                                  walk.locals, walk.steps + 1)
    /\ UNCHANGED pc
    /\ WalkFrameVars

\* the innermost call ends, by the end of its loop or by the exception passing
\* through it, and its caller's finally clause discards the address
WalkReturn ==
    /\ walk.status = "running"
    /\ walk.steps <= StepLimit
    /\ LET top == walk.frames[Len(walk.frames)]
       IN  /\ walk.st.error # NoError \/ top.i > Len(top.deps)
           /\ walk' = Walking(DiscardFromStack(walk.st, top.discard), PopFrame(walk.frames),
                              walk.locals, walk.steps + 1)
    /\ UNCHANGED pc
    /\ WalkFrameVars

\* graphs with a cycle between B and C, diamonds on B and on D, and manifests
\* of B that state another version than their tag
InitWalk ==
    /\ \E tagsB \in TagListsB, kindB \in {"tag", "v200"}, bHigh \in DepsBHigh,
          depsC \in {<<>>, <<Remote("b", "B", V120)>>,
                     <<Remote("b", "B", V100), Remote("d", "D", V120)>>},
          tagsD \in TagListsD, dLow \in DepsDLow :
            registry = Registry(tagsB, kindB, <<>>, bHigh, depsC, tagsD, dLow)
    /\ \E deps \in RootDepLists : manifest = Manifest("A", V100, deps)
    /\ cache = EmptyCache
    /\ pc = "start"
    /\ resolved = <<>>
    /\ error = NoError
    /\ vcs_log = <<>>
    /\ lock_file = <<>>
    /\ verify_result = NoError
    /\ edits = 0
    /\ install = NotInstalling
    /\ store = NotStoring
    /\ calc = NoCall
    /\ InitCli

NextWalk == WalkBegin \/ WalkVisit \/ WalkReturn

SpecWalk == InitWalk /\ [][NextWalk]_vars

WalkEnded == walk.status \in {"returned", "raised"}

\* C27: every call of resolve_all_dependencies comes to an end, returning or
\* raising, whatever cycles, diamonds and prunings the graph forces: a walk
\* that is still running has made no more iterations and returns than the
\* square of the number of declared dependencies plus one, and has a next step.
C27_ResolveTerminates ==
    walk.status = "running" =>
        /\ walk.steps <= StepLimit
        /\ walk.frames # <<>>
        /\ LET top == walk.frames[Len(walk.frames)]
           IN  top.i \in 1..(Len(top.deps) + 1)

\* a walk that re-resolved B, pruned and went three calls deep has returned
C27_Witness ==
    /\ walk.status = "returned"
    /\ Len(walk.st.resolved_map) = 3
    /\ Cardinality({i \in 1..Len(walk.st.vcs_log) :
                       walk.st.vcs_log[i].op = "ls-remote"
                       /\ walk.st.vcs_log[i].address = "B"}) >= 2


\* ---------------------------------------------------------------------------
\* store_in_cache followed by is_cached, for every kind of source directory
\* ---------------------------------------------------------------------------

\* the source directories a clone can hand over: an empty tree, a tree holding
\* nothing but .git, the package, the package with its .git
SourceDirs == {{}, GitFiles, NewFiles, NewFiles \cup GitFiles}

InitStoreSource ==
    /\ registry = Registry(<<V100>>, "tag", <<>>, <<>>, <<>>, <<V100>>, <<>>)
    /\ manifest = Manifest("A", V100, <<>>)
    /\ cache = EmptyCache
    /\ pc = "store"
    /\ resolved = <<>>
    /\ error = NoError
    /\ vcs_log = <<>>
    /\ lock_file = <<>>
    /\ verify_result = NoError
    /\ edits = 0
    /\ install = NotInstalling
    /\ calc = NoCall
    /\ InitCli
    /\ \E final \in {FsNone, FsDir({}), FsDir(OldFiles)},
          staging \in {FsNone, FsDir({<<"main.mthds", "old">>})},
          src \in SourceDirs :
            store = StoreState(final, staging, [w \in Writers |-> src],
                               [w \in Writers |-> IF w = 1 THEN "start" ELSE "idle"])

SpecStoreSource == InitStoreSource /\ [][NextStoreOne]_vars

\* store_in_cache returned without raising
StoredBy(w) == store.started /\ store.pc[w] = "done"

\* what the source holds besides its .git directory
Payload(w) == {f \in store.source[w] : f[1] # ".git"}

\* C28 as stated: after store_in_cache returns, is_cached is true whatever the
\* source directory held, an empty source and a source holding only .git included
C28_StoredIsCached ==
    \A w \in Writers : StoredBy(w) => FsIsCached(store.final)

\* C28 amended: after store_in_cache returns, is_cached is true when the source
\* held at least one entry besides .git; an empty or .git-only source is stored
\* as an empty directory, which is_cached reports as not cached
C28_StoredPayloadIsCached ==
    \A w \in Writers :
        StoredBy(w) => (FsIsCached(store.final) <=> Payload(w) # {})

\* a package cloned with its .git has been stored and is reported as cached
C28_Witness ==
    /\ StoredBy(1)
    /\ store.source[1] = NewFiles \cup GitFiles
    /\ store.final_before = FsDir(OldFiles)
    /\ FsIsCached(store.final)

\* a .git-only source was stored and is_cached says no
C28_EmptyStored ==
    /\ StoredBy(1)
    /\ store.source[1] = GitFiles
    /\ ~FsIsCached(store.final)


----------------------------------------------------------------------------
(* mthds/package/lock_file.py: compute_directory_hash byte by byte.  A cached *)
(* directory is the set of its regular files; a file is its relative path, a  *)
(* sequence of parts, and its bytes; a part and the bytes are sequences of    *)
(* code points (46 ".", 47 "/", 97 "a", 98 "b", 103 "g", 105 "i", 115 "s",   *)
(* 116 "t").                                                                 *)

MaxTampers == 2

DotGit == <<46, 103, 105, 116>>
PartA == <<97>>
PartB == <<98>>
PartAB == <<97, 98>>
PartS == <<115>>

TreeFile(parts, bytes) == [parts |-> parts, bytes |-> bytes]

RECURSIVE as_posix(_)
\* Path.as_posix(): the parts joined by "/"
as_posix(parts) ==
    IF Len(parts) = 1 THEN parts[1]
    ELSE parts[1] \o <<47>> \o as_posix(Tail(parts))

\* lines 102-107: the regular files, without those that have a ".git" part
CollectFilePaths(files) ==
    {f \in files : \A i \in 1..Len(f.parts) : f.parts[i] # DotGit}

RECURSIVE SortedByPosix(_)
\* line 110: file_paths.sort(key=as_posix); paths are distinct, so the order is total
SortedByPosix(files) ==
    IF files = {} THEN <<>>
    ELSE LET first == CHOOSE f \in files :
                        \A g \in files \ {f} : StrLess(as_posix(f.parts), as_posix(g.parts))
         IN  <<first>> \o SortedByPosix(files \ {first})

RECURSIVE HasherUpdates(_)
\* lines 112-115: hasher.update(path bytes); hasher.update(file bytes), file after file
HasherUpdates(sorted_files) ==
    IF sorted_files = <<>> THEN <<>>
    ELSE as_posix(Head(sorted_files).parts) \o Head(sorted_files).bytes
         \o HasherUpdates(Tail(sorted_files))

\* the bytes the hasher has been fed when hexdigest() is taken
HasherInput(files) == HasherUpdates(SortedByPosix(CollectFilePaths(files)))

\* line 117: SHA-256 taken as collision free, the digest stands for its input
DirectoryDigest(files) == <<"sha256", HasherInput(files)>>

\* verify_locked_package, lines 257-269, on a cached directory that exists
VerifyCachedFiles(locked_hash, files) ==
    IF DirectoryDigest(files) # locked_hash THEN IntegrityError ELSE NoError

\* the paths and contents a cached directory is built from
TreePaths == {<<PartA>>, <<PartB>>, <<PartAB>>, <<PartS, DotGit, PartA>>}
TreeBytes == {<<>>, <<97>>, <<98, 97>>}

\* a path names one file; a file is not also a directory of another file
IsPrefix(p, q) == Len(p) < Len(q) /\ SubSeq(q, 1, Len(p)) = p
WellFormedTree(files) ==
    \A f, g \in files :
        f # g => f.parts # g.parts /\ ~IsPrefix(f.parts, g.parts)

\* the cached package when its lock hash was computed: store_in_cache removed
\* the .git of the root only, a .git directory further down stays
Tampering(original, files) ==
    [fn |-> "tamper", original |-> original, files |-> files,
     locked_hash |-> DirectoryDigest(original)]

InitTamper ==
    /\ registry = Registry(<<V100>>, "tag", <<>>, <<>>, <<>>, <<V100>>, <<>>)
    /\ manifest = Manifest("A", V100, <<>>)
    /\ cache = EmptyCache
    /\ pc = "cached"
    /\ resolved = <<>>
    /\ error = NoError
    /\ vcs_log = <<>>
    /\ lock_file = <<>>
    /\ verify_result = NoError
    /\ edits = 0
    /\ install = NotInstalling
    /\ store = NotStoring
    /\ InitCli
    /\ \E bytes \in TreeBytes, other \in {<<PartB>>, <<PartS, DotGit, PartA>>} :
         \E original \in {{TreeFile(<<PartA>>, bytes)},
                          {TreeFile(<<PartA>>, bytes), TreeFile(other, <<97>>)}} :
            /\ WellFormedTree(original)
            /\ calc = Tampering(original, original)

TamperFrame ==
    UNCHANGED <<registry, manifest, cache, resolved, error, vcs_log, lock_file,
                install, store, cliVars>>

Tampered(files) ==
    /\ pc = "cached"
    /\ edits < MaxTampers
    /\ WellFormedTree(files)
    /\ files # calc.files
    /\ calc' = [calc EXCEPT !.files = files]
    /\ edits' = edits + 1
    /\ UNCHANGED <<pc, verify_result>>
    /\ TamperFrame

\* a regular file is added under the cache directory
AddFile ==
    \E parts \in TreePaths, bytes \in TreeBytes :
        /\ \A f \in calc.files : f.parts # parts
        /\ Tampered(calc.files \cup {TreeFile(parts, bytes)})

\* a regular file is removed
RemoveFile ==
    \E f \in calc.files : Tampered(calc.files \ {f})

\* a regular file is renamed, its bytes kept
RenameFile ==
    \E f \in calc.files, parts \in TreePaths :
        /\ \A g \in calc.files : g.parts # parts
        /\ Tampered((calc.files \ {f}) \cup {TreeFile(parts, f.bytes)})

\* the bytes of a regular file are changed
WriteBytes ==
    \E f \in calc.files, bytes \in TreeBytes :
        Tampered((calc.files \ {f}) \cup {TreeFile(f.parts, bytes)})

\* verify_locked_package(locked, address) on the directory as it is now
VerifyLockedPackage ==
    /\ pc = "cached"
    /\ pc' = "verified"
    /\ verify_result' = VerifyCachedFiles(calc.locked_hash, calc.files)
    /\ UNCHANGED <<calc, edits>>
    /\ TamperFrame

NextTamper == AddFile \/ RemoveFile \/ RenameFile \/ WriteBytes \/ VerifyLockedPackage

SpecTamper == InitTamper /\ [][NextTamper]_vars

\* C29: once the lock hash is taken, a cache directory whose regular files are
\* no longer the ones that were hashed (one added, removed, renamed or
\* rewritten, under a nested .git or not) feeds the hasher a different byte
\* stream, and verify_locked_package raises IntegrityError
C29_TamperDetected ==
    (calc.fn = "tamper" /\ calc.files # calc.original) =>
        /\ HasherInput(calc.files) # HasherInput(calc.original)
        /\ pc = "verified" => verify_result = IntegrityError

\* bytes moved from a file's content into the path of a new file: verify passes
C29_Failure ==
    /\ calc.fn = "tamper"
    /\ pc = "verified"
    /\ verify_result = NoError
    /\ calc.original = {TreeFile(<<PartA>>, <<98, 97>>)}
    /\ calc.files = {TreeFile(<<PartA>>, <<>>), TreeFile(<<PartB>>, <<97>>)}


----------------------------------------------------------------------------
(* mthds/cli/commands/package: lock_cmd.py, update_cmd.py, _lock_helpers.py.  *)
(* methods.lock is the file on disk, the sequence of its lines; the manifest  *)
(* is METHODS.toml as parsed.  A command is one action; install runs step by  *)
(* step on the lock it read from the file.                                    *)

MaxCommands == 2

\* address.encode("utf-8") for the addresses of the registry
CodePoints(address) ==
    CASE address = "A" -> <<65>>
      [] address = "B" -> <<66>>
      [] address = "C" -> <<67>>
      [] address = "D" -> <<68>>
      [] OTHER -> <<69>>

AddressOf(code_points) == CHOOSE a \in Addrs : CodePoints(a) = code_points

\* the lock as serialize_lock_file takes it, addresses as their code points
Encoded(packages) ==
    [i \in 1..Len(packages) |-> [packages[i] EXCEPT !.address = CodePoints(@)]]

\* a file that is not a lock file
Garbage == <<<<"<<<<<<<", "HEAD">>>>

LockOnDisk(content) == [exists |-> TRUE, content |-> content]

\* a line "key = value" of a table
IsKeyLine(line, key) == Len(line) = 3 /\ line[1] = key /\ line[2] = "="

IsHeaderLine(line) ==
    /\ Len(line) = 3 /\ line[1] = "[" /\ line[3] = "]"
    /\ \E a \in Addrs : CodePoints(a) = line[2]

RECURSIVE ParseTables(_)
\* parse_lock_file, lines 146-156: one LockedPackage per table
ParseTables(lines) ==
    IF lines = <<>> THEN [error |-> NoError, packages |-> <<>>]
    ELSE IF \/ Len(lines) < 4
            \/ ~IsHeaderLine(lines[1])
            \/ ~IsKeyLine(lines[2], "version")
            \/ ~IsKeyLine(lines[3], "hash")
            \/ ~IsKeyLine(lines[4], "source")
    THEN [error |-> LockFileError, packages |-> <<>>]
    ELSE LET rest == ParseTables(SubSeq(lines, 5, Len(lines)))
             locked == LockedPackage(AddressOf(lines[1][2]), lines[2][3], lines[3][3],
                                     lines[4][3])
         IN  IF rest.error # NoError THEN rest
             ELSE [error |-> NoError, packages |-> <<locked>> \o rest.packages]

\* lines 125-158
parse_lock_file(content) == ParseTables(content)

\* the errors resolve_and_generate_lock catches around resolve_all_dependencies
CaughtResolveErrors == {ResolveError, CycleError, UnsatisfiableError}

\* _lock_helpers.py 52-66: what follows the call of resolve_all_dependencies
LockOutcome(out, generated) ==
    IF out.error # NoError
    THEN [exit |-> IF out.error \in CaughtResolveErrors THEN ExitOne ELSE ExitCrash,
          cache |-> out.cache, packages |-> <<>>, content |-> <<>>]
    ELSE IF generated.error # NoError
    THEN [exit |-> ExitOne, cache |-> out.cache, packages |-> <<>>, content |-> <<>>]
    ELSE [exit |-> ExitOk, cache |-> out.cache, packages |-> generated.packages,
          content |-> serialize_lock_file(Encoded(generated.packages))]

\* _lock_helpers.py 42-66: [exit, cache, packages, content]; the resolve is
\* evaluated once, as a member of a one-element set
resolve_and_generate_lock(reg, m, c) ==
    CHOOSE outcome \in {LockOutcome(out, generate_lock_file(m, out.result, out.cache)) :
                           out \in {resolve_all_dependencies(reg, m, c)}} : TRUE

\* _lock_helpers.py 69-82
write_lock_file(lock_content) == LockOnDisk(lock_content)

\* a command that writes what it has before the resolve has ended
LockWrittenFirst(toml, lock, reg, m, c) ==
    IF ~toml.exists THEN [exit |-> ExitOne, lock |-> lock, cache |-> c]
    ELSE LET out == resolve_and_generate_lock(reg, m, c)
         IN  [exit |-> out.exit, lock |-> write_lock_file(out.content), cache |-> out.cache]

\* lock_cmd.py 7-18 with parse_manifest_or_exit: [exit, lock, cache]
do_lock(toml, lock, reg, m, c) ==
    IF ~toml.exists THEN [exit |-> ExitOne, lock |-> lock, cache |-> c]
    ELSE LET out == resolve_and_generate_lock(reg, m, c)
         IN  IF out.exit # ExitOk
             THEN [exit |-> out.exit, lock |-> lock, cache |-> out.cache]
             ELSE [exit |-> ExitOk, lock |-> write_lock_file(out.content),
                   cache |-> out.cache]

\* update_cmd.py 49-77: the old lock is read for the diff only, an unreadable
\* one is ignored
do_update(toml, lock, reg, m, c) ==
    IF ~toml.exists THEN [exit |-> ExitOne, lock |-> lock, cache |-> c]
    ELSE LET old_lock == IF lock.exists THEN parse_lock_file(lock.content)
                         ELSE [error |-> LockFileError, packages |-> <<>>]
             out == resolve_and_generate_lock(reg, m, c)
         IN  IF out.exit # ExitOk
             THEN [exit |-> out.exit, lock |-> lock, cache |-> out.cache]
             ELSE [exit |-> ExitOk, lock |-> write_lock_file(out.content),
                   cache |-> out.cache]

\* the methods.lock a project directory may hold before a command runs
OldLocks(reg) ==
    {NoFile,
     LockOnDisk(<<>>),
     LockOnDisk(Garbage),
     LockOnDisk(serialize_lock_file(Encoded(
        <<LockedPackage("B", V100, compute_directory_hash(reg["B"].tree[V100]),
                        <<"https://", "B">>)>>))),
     LockOnDisk(serialize_lock_file(Encoded(
        <<LockedPackage("E", V100, WrongHash, <<"https://", "E">>),
          LockedPackage("C", V100, compute_directory_hash(reg["C"].tree[V100]),
                        <<"https://", "C">>)>>)))}

InitLockCmd ==
    /\ \E tagsB \in TagListsB, kindB \in {"tag", "none"},
          depsC \in {<<>>, <<Remote("b", "B", V200)>>, <<Remote("a", "A", V100)>>} :
            registry = Registry(tagsB, kindB, <<>>, <<>>, depsC, <<V100>>, <<>>)
    /\ \E deps \in RootDepLists : manifest = Manifest("A", V100, deps)
    /\ \E present \in BOOLEAN :
          /\ methods_toml = [exists |-> present]
          /\ ~present => manifest.dependencies = <<>>
    /\ methods_lock \in OldLocks(registry)
    /\ cache = EmptyCache
    /\ pc = "cli"
    /\ resolved = <<>>
    /\ error = NoError
    /\ vcs_log = <<>>
    /\ lock_file = <<>>
    /\ verify_result = NoError
    /\ edits = 0
    /\ install = NotInstalling
    /\ store = NotStoring
    /\ calc = NoCall
    /\ exit_code = "none"
    /\ environ = <<>>
    /\ credentials_file = NoFile
    /\ legacy_files = NoFile
    /\ migration_done = FALSE
    /\ walk = NotWalking

LockCmdFrame ==
    UNCHANGED <<registry, manifest, resolved, error, vcs_log, lock_file, verify_result,
                install, store, methods_toml, environ, credentials_file, legacy_files,
                migration_done, walk>>

Commanded(fn, out) ==
    /\ pc = "cli"
    /\ edits < MaxCommands
    /\ methods_lock' = out.lock
    /\ cache' = out.cache
    /\ exit_code' = out.exit
    /\ calc' = [fn |-> fn, lock_before |-> methods_lock]
    /\ edits' = edits + 1
    /\ UNCHANGED pc
    /\ LockCmdFrame

\* mthds package lock
DoLock ==
    \E out \in {do_lock(methods_toml, methods_lock, registry, manifest, cache)} :
        Commanded("lock", out)

\* mthds package update
DoUpdate ==
    \E out \in {do_update(methods_toml, methods_lock, registry, manifest, cache)} :
        Commanded("update", out)

\* install_cmd.py 15-29: methods.lock is looked up, read and parsed
InstallRead ==
    /\ pc = "cli"
    /\ LET parsed == IF methods_lock.exists THEN parse_lock_file(methods_lock.content)
                     ELSE [error |-> NoError, packages |-> <<>>]
       IN  IF parsed.error # NoError
           THEN /\ install' = [NotInstalling EXCEPT !.lock_present = TRUE, !.exit = ExitOne,
                                                    !.cache_before = cache]
                /\ pc' = "install_done"
                /\ UNCHANGED lock_file
           ELSE /\ install' = [NotInstalling EXCEPT !.lock_present = methods_lock.exists,
                                                    !.cache_before = cache]
                /\ lock_file' = parsed.packages
                /\ pc' = "install_start"
    /\ vcs_log' = <<>>
    /\ calc' = [fn |-> "install", lock_before |-> methods_lock]
    /\ UNCHANGED <<registry, manifest, cache, resolved, error, verify_result, edits, store,
                   cliVars>>

NextLockCmd ==
    \/ DoLock \/ DoUpdate
    \/ InstallRead \/ InstallBegin \/ InstallPackage \/ InstallVerify

SpecLockCmd == InitLockCmd /\ [][NextLockCmd]_vars

\* the resolve or the generation of the lock would fail in this state
ResolveOrGenerateFails ==
    LET out == resolve_all_dependencies(registry, manifest, cache)
    IN  \/ out.error # NoError
        \/ generate_lock_file(manifest, out.result, out.cache).error # NoError

\* C30: a lock or update command whose resolution or lock generation fails
\* exits non-zero and leaves methods.lock as it was; methods.lock changes only
\* in a lock or update command that exits 0, and no step of install changes it
C30_LockWrittenOnlyOnSuccess ==
    [][/\ (edits' = edits + 1 /\ methods_toml.exists /\ ResolveOrGenerateFails) =>
              /\ exit_code' \in {ExitOne, ExitCrash}
              /\ methods_lock' = methods_lock
       /\ methods_lock' # methods_lock =>
              /\ edits' = edits + 1
              /\ exit_code' = ExitOk
              /\ ~ResolveOrGenerateFails
       /\ pc' # "cli" => methods_lock' = methods_lock]_vars

\* a lock file was there, update failed in the generation of the lock (B has no
\* manifest at its tag), and the file is what it was
C30_Witness ==
    /\ calc = [fn |-> "update", lock_before |-> methods_lock]
    /\ methods_lock.exists /\ methods_lock.content # <<>> /\ methods_lock.content # Garbage
    /\ exit_code = ExitOne
    /\ \E i \in 1..Len(manifest.dependencies) : manifest.dependencies[i].address = "B"
    /\ cache["B"][V100].exists
    /\ ~cache["B"][V100].manifest.present

====
